---- MODULE Spec2Model ----
(***************************************************************************)
(* grz-check: the concurrent validation engine.                            *)
(*                                                                         *)
(* Part 1 models the stream pipeline (file -> SharedHashingReader ->       *)
(* DualProgressReader -> optional decompression -> decoder) and the four   *)
(* validators as operators over a file's on-disk bytes.                    *)
(* Part 2 models process_job and write_jsonl_report_entry.                 *)
(* Part 3 models process_jobs / run_check: the rayon worker pool, the two  *)
(* batch policies, the cancellation flag and the report sink.              *)
(***************************************************************************)
EXTENDS Integers, Sequences, FiniteSets, TLC

\* ---------------------------------------------------------------- bounds
MaxRecs == 3
BufCap == 2
NumJobs == 3
NumWorkers == 2

\* Sequence lengths a FASTQ record may have in the model, and the values
\* MIN_MEAN_READ_LEN may take on the command line (negative: skip).
LenSet == {3, 4}
LenArgs == {-1, 3, 4}

\* ---------------------------------------------------------------- helpers
Min(a, b) == IF a < b THEN a ELSE b

\* Option<T>: None is the empty tuple, Some(x) the one-element tuple.
NoneV == <<>>
Some(x) == <<x>>
IsSome(o) == Len(o) = 1
Unwrap(o) == o[1]

\* An error or warning string: its fixed text and the values formatted
\* into it (an id: a file id such as <<"R1">> or a record name, and up to
\* two numbers).
Msg(text, id, n, m) == [text |-> text, id |-> id, n |-> n, m |-> m]
NoMsg == Msg("", <<>>, 0, 0)

RECURSIVE SeqsUpTo(_, _)
SeqsUpTo(S, n) ==
  IF n = 0 THEN {<<>>}
  ELSE LET shorter == SeqsUpTo(S, n - 1)
       IN  shorter \cup {Append(s, x) : s \in {t \in shorter : Len(t) = n - 1}, x \in S}

\* ------------------------------------------------- on-disk representation
\* A decoded FASTQ stream is one byte per record: the record's sequence
\* length, or BadByte for a record the decoder cannot parse.  A gzip file
\* holds the same bytes shifted by GzOffset, followed by the gzip trailer.
BadByte == 0
GzOffset == 10
GzTrailer == 99

\* What the tests' create_gzipped_fastq does to a decoded stream.
Compress(decoded) == [i \in 1..Len(decoded) |-> decoded[i] + GzOffset] \o <<GzTrailer>>

\* A BAM file is one header byte followed by one byte per record.
HdrBad == 0
HdrEmpty == 1
HdrInfo == 2
BamPrimary == 1
BamSecondary == 2
BamHardClip == 3
BamSecondaryHardClip == 4
BamKinds == {BamPrimary, BamSecondary, BamHardClip, BamSecondaryHardClip}

\* Idealised SHA-256: injective on byte sequences.
Sha256(bytes) == [sha256 |-> bytes]

\* ------------------------------------------------------- stream pipeline
\* The state of one file's reader stack.  bytes: the file on disk; pos: bytes
\* handed out by the file so far; hashed: bytes fed to the hasher, in order;
\* file_pb: the per-file progress count; global_pb: what this reader has added
\* to the batch-wide progress count; last: the result of the last read, n for
\* Ok(n) and -1 for Err; gz: whether niffler detected gzip; holders: strong
\* count of the hasher Arc.
NewReader(bytes) ==
  [bytes |-> bytes, pos |-> 0, hashed |-> <<>>, file_pb |-> 0, global_pb |-> 0,
   last |-> 0, gz |-> FALSE, holders |-> 2]

\* SharedHashingReader::read with hasher.update(buf) in place of
\* hasher.update(&buf[..bytes_read]): the unfilled tail of the caller's
\* buffer (zeroes) is hashed too.
SharedHashingReader_read_whole_buf(r, n) ==
  LET bytes_read == Min(n, Len(r.bytes) - r.pos)
  IN  [r EXCEPT !.pos = @ + bytes_read,
                !.hashed = IF bytes_read > 0
                           THEN @ \o SubSeq(r.bytes, r.pos + 1, r.pos + bytes_read)
                                  \o [i \in 1..(n - bytes_read) |-> 0]
                           ELSE @,
                !.last = bytes_read]

SharedHashingReader_read(r, n) ==
  LET bytes_read == Min(n, Len(r.bytes) - r.pos)
  IN  [r EXCEPT !.pos = @ + bytes_read,
                !.hashed = IF bytes_read > 0
                           THEN @ \o SubSeq(r.bytes, r.pos + 1, r.pos + bytes_read)
                           ELSE @,
                !.last = bytes_read]

\* SharedHashingReader::read when inner.read(buf)? fails: nothing is hashed.
SharedHashingReader_read_err(r) == [r EXCEPT !.last = -1]

\* DualProgressReader::read that leaves the batch-wide bar alone.
DualProgressReader_inc_file_only(h) ==
  [h EXCEPT !.file_pb = IF h.last > 0 THEN @ + h.last ELSE @]

\* DualProgressReader::read after inner.read(buf)? has returned h.last.
DualProgressReader_inc(h) ==
  [h EXCEPT !.file_pb = IF h.last > 0 THEN @ + h.last ELSE @,
            !.global_pb = IF h.last > 0 THEN @ + h.last ELSE @]

DualProgressReader_read(r, n) == DualProgressReader_inc(SharedHashingReader_read(r, n))

DualProgressReader_read_err(r) == DualProgressReader_inc(SharedHashingReader_read_err(r))

\* BufReader: refill with one read of the buffer's capacity until the byte
\* at offset want is available or the source reports end-of-file.
RECURSIVE Fill(_, _)
Fill(r, want) ==
  IF r.pos >= want \/ r.pos = Len(r.bytes) THEN r
  ELSE Fill(DualProgressReader_read(r, BufCap), want)

Drained(r) == r.pos = Len(r.bytes)

\* setup_file_reader: [ok, rd, err].  file = [open, bytes].  With
\* decompress, niffler::get_reader sniffs the head of the stream (r1 is the
\* reader after that first fill) and fails on an empty one.
setup_sniffed(path, r1) ==
  IF r1.pos = 0
  THEN [ok |-> FALSE, rd |-> r1, err |-> Msg("Failed to decompress file", <<>>, path, 0)]
  ELSE [ok |-> TRUE, rd |-> [r1 EXCEPT !.gz = r1.bytes[1] >= GzOffset], err |-> NoMsg]

setup_file_reader(path, file, decompress) ==
  IF ~file.open
  THEN [ok |-> FALSE, rd |-> NewReader(<<>>),
        err |-> Msg("Failed to open file for reading", <<>>, path, 0)]
  ELSE IF ~decompress THEN [ok |-> TRUE, rd |-> NewReader(file.bytes), err |-> NoMsg]
  ELSE setup_sniffed(path, Fill(NewReader(file.bytes), 1))

\* fastq::io::Reader::records().next() for the k-th record (1-based):
\* [rd, item], item = None at end of stream, else Some([ok, len]).  r1 is
\* the reader once the buffer holds byte k or the file has ended.
FastqItem(r1, k) ==
  LET b == IF r1.gz THEN r1.bytes[k] - GzOffset ELSE r1.bytes[k]
  IN  IF k <= r1.pos /\ ~(r1.gz /\ r1.bytes[k] = GzTrailer)
      THEN [rd |-> r1, item |-> Some([ok |-> b # BadByte, len |-> b])]
      ELSE [rd |-> Fill(r1, Len(r1.bytes) + 1), item |-> NoneV]

FastqNext(r, k) == FastqItem(Fill(r, k), k)

\* bam::io::Reader::read_header: [ok, rd, info]; info: the header carries
\* reference sequences, read groups, programs or comments.
BamHeader(r1) ==
  [ok |-> r1.pos >= 1 /\ r1.bytes[1] # HdrBad,
   rd |-> r1,
   info |-> r1.pos >= 1 /\ r1.bytes[1] = HdrInfo]

BamReadHeader(r) == BamHeader(Fill(r, 1))

\* The name of the i-th record of a BAM file.
RecNames == [i \in 1..(MaxRecs + 1) |-> <<"rec", i>>]

\* bam::io::Reader::records().next() for the i-th record (1-based).
BamItem(r1, i) ==
  LET b == r1.bytes[i + 1]
  IN  IF i + 1 <= r1.pos
      THEN [rd |-> r1,
            item |-> Some([ok |-> b \in BamKinds,
                           secondary |-> b \in {BamSecondary, BamSecondaryHardClip},
                           hard_clip |-> b \in {BamHardClip, BamSecondaryHardClip},
                           name |-> RecNames[i]])]
      ELSE [rd |-> Fill(r1, Len(r1.bytes) + 1), item |-> NoneV]

BamNext(r, i) == BamItem(Fill(r, i + 1), i)

\* ------------------------------------------------------------ validators
\* Stats as serialised by the report; fastq.rs fills total_read_length,
\* bam.rs fills read_length with None.
Stats(num_records, read_length, total_read_length) ==
  [num_records |-> num_records, read_length |-> read_length,
   total_read_length |-> total_read_length]

CheckOutcome(stats, errors, warnings) ==
  [stats |-> stats, errors |-> errors, warnings |-> warnings]
CheckOutcome_default == CheckOutcome(NoneV, <<>>, <<>>)

\* ReadLengthCheck, and create_jobs::parse_len on a MIN_MEAN_READ_LEN argument.
Fixed(n) == [kind |-> "Fixed", n |-> n]
Skip == [kind |-> "Skip", n |-> 0]
parse_len(v) == IF v < 0 THEN Skip ELSE Fixed(v)

FastqCheckProcessor_new(length_check) ==
  [length_check |-> length_check, num_records |-> 0, total_read_length |-> 0,
   errors |-> <<>>]

FastqCheckProcessor_is_ok(p) == p.errors = <<>> /\ p.num_records > 0

\* process_record: [ok, p, err]; ok = FALSE is the `?` early return.
process_record(p, item, file_id) ==
  LET p1 == [p EXCEPT !.num_records = @ + 1]
  IN  IF ~item.ok
      THEN [ok |-> FALSE, p |-> p1,
            err |-> Msg("Failed to parse record", <<file_id>>, p1.num_records, 0)]
      ELSE [ok |-> TRUE,
            p |-> [p1 EXCEPT !.total_read_length = @ + item.len],
            err |-> NoMsg]

\* finalize with `<` in place of `<=`: a mean equal to the minimum passes.
FastqCheckProcessor_finalize_strict(p) ==
  LET p1 == IF p.num_records = 0 /\ FastqCheckProcessor_is_ok(p)
            THEN [p EXCEPT !.errors =
                    Append(@, Msg("File is empty. Expected at least one record.", <<>>, 0, 0))]
            ELSE p
      min == p1.length_check.n
      low == p1.num_records > 0 /\ p1.total_read_length < min * p1.num_records
      p2 == IF p1.length_check.kind = "Fixed" /\ low
            THEN [p1 EXCEPT !.errors =
                    Append(@, Msg("Mean read length is not greater than minimum required",
                                  <<>>, p1.total_read_length, min))]
            ELSE p1
  IN  CheckOutcome(IF p2.num_records > 0
                   THEN Some(Stats(p2.num_records, NoneV, Some(p2.total_read_length)))
                   ELSE NoneV,
                   p2.errors, <<>>)

\* finalize.  The mean is total/num as f64: with num = 0 it is NaN and the
\* comparison is false; otherwise mean <= min iff total <= min * num.  The
\* message carries the total (n) and the minimum (m).
FastqCheckProcessor_finalize(p) ==
  LET p1 == IF p.num_records = 0 /\ FastqCheckProcessor_is_ok(p)
            THEN [p EXCEPT !.errors =
                    Append(@, Msg("File is empty. Expected at least one record.", <<>>, 0, 0))]
            ELSE p
      min == p1.length_check.n
      low == p1.num_records > 0 /\ p1.total_read_length <= min * p1.num_records
      p2 == IF p1.length_check.kind = "Fixed" /\ low
            THEN [p1 EXCEPT !.errors =
                    Append(@, Msg("Mean read length is not greater than minimum required",
                                  <<>>, p1.total_read_length, min))]
            ELSE p1
  IN  CheckOutcome(IF p2.num_records > 0
                   THEN Some(Stats(p2.num_records, NoneV, Some(p2.total_read_length)))
                   ELSE NoneV,
                   p2.errors, <<>>)

\* The closure of check_single_fastq: [ok, outcome, err, rd].  SingleLoop is
\* one turn of `for record_res in fastq_reader.records()`: nx is what the
\* iterator yields, pr what process_record makes of it.
RECURSIVE SingleLoop(_, _, _)
\* SingleRecord asking the decoder for one more record before it gives up
\* on a decode error.
SingleRecord_reading_on(pr, rd, k) ==
  IF ~pr.ok THEN [ok |-> FALSE, p |-> pr.p, err |-> pr.err, rd |-> FastqNext(rd, k + 1).rd]
  ELSE IF ~FastqCheckProcessor_is_ok(pr.p)
  THEN [ok |-> TRUE, p |-> pr.p, err |-> NoMsg, rd |-> rd]
  ELSE SingleLoop(pr.p, rd, k + 1)

SingleRecord(pr, rd, k) ==
  IF ~pr.ok THEN [ok |-> FALSE, p |-> pr.p, err |-> pr.err, rd |-> rd]
  ELSE IF ~FastqCheckProcessor_is_ok(pr.p)
  THEN [ok |-> TRUE, p |-> pr.p, err |-> NoMsg, rd |-> rd]
  ELSE SingleLoop(pr.p, rd, k + 1)

SingleStep(p, nx, k) ==
  IF nx.item = NoneV THEN [ok |-> TRUE, p |-> p, err |-> NoMsg, rd |-> nx.rd]
  ELSE SingleRecord(process_record(p, Unwrap(nx.item), "record"), nx.rd, k)

SingleLoop(p, r, k) == SingleStep(p, FastqNext(r, k), k)

SingleResult(l) ==
  [ok |-> l.ok,
   outcome |-> IF l.ok THEN FastqCheckProcessor_finalize(l.p) ELSE CheckOutcome_default,
   err |-> l.err, rd |-> l.rd]

SingleLogic(length_check, r) ==
  SingleResult(SingleLoop(FastqCheckProcessor_new(length_check), r, 1))

\* process_paired_readers: the zip_longest loop.  Each step polls R1 then R2
\* (n1, n2).  [ok, p1, p2, pair_errors, err, rd1, rd2].
RECURSIVE PairedLoop(_, _, _, _, _)
PairedDone(q1, q2, pe, n1, n2) ==
  [ok |-> TRUE, p1 |-> q1, p2 |-> q2, pair_errors |-> pe, err |-> NoMsg,
   rd1 |-> n1.rd, rd2 |-> n2.rd]

\* The `?` on process_record: the function returns Err(e).
PairedFail(p1, p2, e, n1, n2) ==
  [ok |-> FALSE, p1 |-> p1, p2 |-> p2, pair_errors |-> <<>>, err |-> e,
   rd1 |-> n1.rd, rd2 |-> n2.rd]

\* Both: a and b are what process_record made of r1_res and r2_res.
PairedBothR2(p1, p2, a, b, n1, n2, k) ==
  IF ~b.ok THEN PairedFail(p1, p2, b.err, n1, n2)
  ELSE IF ~FastqCheckProcessor_is_ok(a.p) \/ ~FastqCheckProcessor_is_ok(b.p)
  THEN PairedDone(a.p, b.p, <<>>, n1, n2)
  ELSE PairedLoop(a.p, b.p, n1.rd, n2.rd, k + 1)

\* The Both arm with R2's record processed before R1's result is looked at.
PairedBoth_r2_first(p1, p2, a, n1, n2, k) ==
  LET b == process_record(p2, Unwrap(n2.item), "R2")
  IN  IF ~b.ok THEN PairedFail(p1, p2, b.err, n1, n2)
      ELSE IF ~a.ok THEN PairedFail(p1, p2, a.err, n1, n2)
      ELSE PairedBothR2(p1, p2, a, b, n1, n2, k)

PairedBoth(p1, p2, a, n1, n2, k) ==
  IF ~a.ok THEN PairedFail(p1, p2, a.err, n1, n2)
  ELSE PairedBothR2(p1, p2, a, process_record(p2, Unwrap(n2.item), "R2"), n1, n2, k)

\* PairedLeft draining R1: every remaining record of R1 is processed before
\* the one pair-level error is recorded.
RECURSIVE PairedLeft_draining(_, _, _, _, _)
PairedLeft_draining(p1, p2, a, n1, n2) ==
  IF ~a.ok THEN PairedFail(p1, p2, a.err, n1, n2)
  ELSE LET nx == FastqNext(n1.rd, a.p.num_records + 1)
       IN  IF nx.item = NoneV
           THEN PairedDone(a.p, p2,
                  <<Msg("Mismatched read counts: R1 has more records than R2.", <<>>, 0, 0)>>,
                  nx, n2)
           ELSE PairedLeft_draining(a.p, p2, process_record(a.p, Unwrap(nx.item), "R1"),
                                    nx, n2)

PairedLeft(p1, p2, a, n1, n2) ==
  IF ~a.ok THEN PairedFail(p1, p2, a.err, n1, n2)
  ELSE PairedDone(a.p, p2,
         <<Msg("Mismatched read counts: R1 has more records than R2.", <<>>, 0, 0)>>,
         n1, n2)

\* PairedRight going on after the surplus record of R2: no pair-level error
\* is recorded and the loop takes its next step.
PairedRight_going_on(p1, p2, b, n1, n2) ==
  IF ~b.ok THEN PairedFail(p1, p2, b.err, n1, n2)
  ELSE PairedLoop(p1, b.p, n1.rd, n2.rd, b.p.num_records + 1)

PairedRight(p1, p2, b, n1, n2) ==
  IF ~b.ok THEN PairedFail(p1, p2, b.err, n1, n2)
  ELSE PairedDone(p1, b.p,
         <<Msg("Mismatched read counts: R2 has more records than R1.", <<>>, 0, 0)>>,
         n1, n2)

PairedStep(p1, p2, n1, n2, k) ==
  IF n1.item = NoneV /\ n2.item = NoneV THEN PairedDone(p1, p2, <<>>, n1, n2)
  ELSE IF n1.item # NoneV /\ n2.item # NoneV
  THEN PairedBoth(p1, p2, process_record(p1, Unwrap(n1.item), "R1"), n1, n2, k)
  ELSE IF n1.item # NoneV
  THEN PairedLeft(p1, p2, process_record(p1, Unwrap(n1.item), "R1"), n1, n2)
  ELSE PairedRight(p1, p2, process_record(p2, Unwrap(n2.item), "R2"), n1, n2)

PairedLoop(p1, p2, r1, r2, k) ==
  PairedStep(p1, p2, FastqNext(r1, k), FastqNext(r2, k), k)

PairedResult(l) ==
  [ok |-> l.ok,
   outcome1 |-> IF l.ok THEN FastqCheckProcessor_finalize(l.p1) ELSE CheckOutcome_default,
   outcome2 |-> IF l.ok THEN FastqCheckProcessor_finalize(l.p2) ELSE CheckOutcome_default,
   pair_errors |-> l.pair_errors, err |-> l.err, rd1 |-> l.rd1, rd2 |-> l.rd2]

process_paired_readers(r1, r2, length_check) ==
  PairedResult(PairedLoop(FastqCheckProcessor_new(length_check),
                          FastqCheckProcessor_new(length_check), r1, r2, 1))

\* The record loop of check_bam: [ok, s, err, rd] with the scan counters s.
BamScanInit ==
  [num_records |-> 0, secondary_alignment_count |-> 0,
   first_secondary_warning_details |-> NoneV,
   hard_clip_count |-> 0, first_hard_clip_warning_details |-> NoneV]

\* BamCount with the first-occurrence guards dropped: the details follow the
\* latest secondary or hard-clipped record.
BamCount_latest_occurrence(s, rec) ==
  LET s1 == [s EXCEPT !.num_records = @ + 1]
      s2 == IF rec.secondary
            THEN [s1 EXCEPT !.secondary_alignment_count = @ + 1,
                            !.first_secondary_warning_details =
                               Some(<<s1.num_records, rec.name>>)]
            ELSE s1
  IN  IF ~rec.secondary /\ rec.hard_clip
      THEN [s2 EXCEPT !.hard_clip_count = @ + 1,
                      !.first_hard_clip_warning_details =
                         Some(<<s2.num_records, rec.name>>)]
      ELSE s2

\* BamCount without the !is_secondary() test on the hard-clip branch: a
\* secondary record with a hard clip is counted under both kinds.
BamCount_counting_both(s, rec) ==
  LET s1 == [s EXCEPT !.num_records = @ + 1]
      s2 == IF rec.secondary
            THEN [s1 EXCEPT !.secondary_alignment_count = @ + 1,
                            !.first_secondary_warning_details =
                               IF @ = NoneV THEN Some(<<s1.num_records, rec.name>>) ELSE @]
            ELSE s1
  IN  IF rec.hard_clip
      THEN [s2 EXCEPT !.hard_clip_count = @ + 1,
                      !.first_hard_clip_warning_details =
                         IF @ = NoneV THEN Some(<<s2.num_records, rec.name>>) ELSE @]
      ELSE s2

BamCount(s, rec) ==
  LET s1 == [s EXCEPT !.num_records = @ + 1]
      s2 == IF rec.secondary
            THEN [s1 EXCEPT !.secondary_alignment_count = @ + 1,
                            !.first_secondary_warning_details =
                               IF @ = NoneV THEN Some(<<s1.num_records, rec.name>>) ELSE @]
            ELSE s1
  IN  IF ~rec.secondary /\ rec.hard_clip
      THEN [s2 EXCEPT !.hard_clip_count = @ + 1,
                      !.first_hard_clip_warning_details =
                         IF @ = NoneV THEN Some(<<s2.num_records, rec.name>>) ELSE @]
      ELSE s2

RECURSIVE BamLoop(_, _, _)
BamStep(s, nx, i) ==
  IF nx.item = NoneV THEN [ok |-> TRUE, s |-> s, err |-> NoMsg, rd |-> nx.rd]
  ELSE IF ~Unwrap(nx.item).ok
  THEN [ok |-> FALSE, s |-> s, err |-> Msg("Failed to parse record", <<>>, i, 0),
        rd |-> nx.rd]
  ELSE BamLoop(BamCount(s, Unwrap(nx.item)), nx.rd, i + 1)

BamLoop(s, r, i) == BamStep(s, BamNext(r, i), i)

HeaderWarning ==
  Msg("Detected a header in BAM file, ensure it contains no private information!",
      <<>>, 0, 0)

\* check_bam after the record loop l, with the header's warnings w0.
BamResult(w0, l) ==
  LET w1 == IF l.s.first_secondary_warning_details # NoneV
            THEN Append(w0, [text |-> "File contains secondary alignment(s).",
                             id |-> Unwrap(l.s.first_secondary_warning_details)[2],
                             n |-> l.s.secondary_alignment_count,
                             m |-> Unwrap(l.s.first_secondary_warning_details)[1]])
            ELSE w0
      w2 == IF l.s.first_hard_clip_warning_details # NoneV
            THEN Append(w1, [text |-> "File contains primary alignment(s) with hard-clipped bases.",
                             id |-> Unwrap(l.s.first_hard_clip_warning_details)[2],
                             n |-> l.s.hard_clip_count,
                             m |-> Unwrap(l.s.first_hard_clip_warning_details)[1]])
            ELSE w1
  IN  IF ~l.ok
      THEN [ok |-> FALSE, outcome |-> CheckOutcome_default, err |-> l.err, rd |-> l.rd]
      ELSE IF l.s.num_records = 0
      THEN [ok |-> TRUE,
            outcome |-> CheckOutcome(NoneV,
                          <<Msg("File is empty. Expected at least one record.", <<>>, 0, 0)>>,
                          <<>>),
            err |-> NoMsg, rd |-> l.rd]
      ELSE [ok |-> TRUE,
            outcome |-> CheckOutcome(Some(Stats(l.s.num_records, NoneV, NoneV)), <<>>, w2),
            err |-> NoMsg, rd |-> l.rd]

\* check_bam after read_header returned h.
BamScan(h) ==
  IF ~h.ok
  THEN [ok |-> FALSE, outcome |-> CheckOutcome_default,
        err |-> Msg("Failed to read BAM header", <<>>, 0, 0), rd |-> h.rd]
  ELSE BamResult(IF h.info THEN <<HeaderWarning>> ELSE <<>>,
                 BamLoop(BamScanInit, h.rd, 1))

BamLogic(r) == BamScan(BamReadHeader(r))

\* RawLogic returning before io::copy has read anything.
RawLogic_without_copy(r) ==
  [ok |-> TRUE, outcome |-> CheckOutcome_default, err |-> NoMsg, rd |-> r]

\* The closure of check_raw: io::copy reads until end-of-file.
RawLogic(r) ==
  [ok |-> TRUE, outcome |-> CheckOutcome_default, err |-> NoMsg,
   rd |-> Fill(r, Len(r.bytes) + 1)]

\* ------------------------------------------------------------ check_file
FileReport_new(path, stats, errors, warnings) ==
  [path |-> path, stats |-> stats, sha256 |-> NoneV, errors |-> errors,
   warnings |-> warnings]
\* new_with_error finalizing the hasher of a reader that read nothing.
FileReport_new_with_error_hashed(path, error) ==
  [path |-> path, stats |-> NoneV, sha256 |-> Some(Sha256(<<>>)), errors |-> <<error>>,
   warnings |-> <<>>]
FileReport_new_with_error(path, error) ==
  [path |-> path, stats |-> NoneV, sha256 |-> NoneV, errors |-> <<error>>,
   warnings |-> <<>>]
FileReport_with_sha256(report, sha256) == [report EXCEPT !.sha256 = sha256]
\* is_ok that also demands an empty warning list.
FileReport_is_ok_without_warnings(report) ==
  report.errors = <<>> /\ report.warnings = <<>>
FileReport_is_ok(report) == report.errors = <<>>
NoReport == FileReport_new(0, NoneV, <<>>, <<>>)

\* Dropping a reader releases its clone of the hasher Arc.
\* A drop that leaves the reader's clone of the hasher alive.
DropReader_keeping(r) == r
DropReader(r) == [r EXCEPT !.holders = @ - 1]

\* Arc::try_unwrap(hasher) followed by finalize(): Some(hex) iff the caller
\* is the only holder left.
TryFinalize(r) == IF r.holders = 1 THEN Some(Sha256(r.hashed)) ELSE NoneV

\* The closure handed to check_file, as data: which validator it is and the
\* length_check it captured; CallLogic is logic(&mut reader).
Closure(kind, length_check) == [kind |-> kind, length_check |-> length_check]
CallLogic(logic, r) ==
  IF logic.kind = "fastq" THEN SingleLogic(logic.length_check, r)
  ELSE IF logic.kind = "bam" THEN BamLogic(r)
  ELSE RawLogic(r)

\* check_file: [report, rd]; rd is the reader stack as it was dropped.
\* check_file_checksum: after drop(reader); check_file_outcome: after the
\* closure returned lg; check_file_setup: after setup_file_reader.
check_file_checksum(path, outcome, dropped) ==
  LET checksum == TryFinalize(dropped)
  IN  IF checksum = NoneV
      THEN [report |-> FileReport_new(path, outcome.stats,
                         <<Msg("Failed to finalize checksum: hasher is still in use.",
                               <<>>, 0, 0)>>,
                         outcome.warnings),
            rd |-> dropped]
      ELSE [report |-> FileReport_with_sha256(
                         FileReport_new(path, outcome.stats, outcome.errors,
                                        outcome.warnings), checksum),
            rd |-> dropped]

check_file_outcome(path, lg) ==
  IF ~lg.ok
  THEN [report |-> FileReport_new_with_error(path, lg.err), rd |-> lg.rd]
  ELSE check_file_checksum(path, lg.outcome, DropReader(lg.rd))

check_file_setup(path, logic, setup) ==
  IF ~setup.ok
  THEN [report |-> FileReport_new_with_error(path, setup.err), rd |-> setup.rd]
  ELSE check_file_outcome(path, CallLogic(logic, setup.rd))

check_file(path, file, decompress, logic) ==
  check_file_setup(path, logic, setup_file_reader(path, file, decompress))


check_single_fastq(path, file, length_check) ==
  check_file(path, file, TRUE, Closure("fastq", length_check))
check_bam(path, file) == check_file(path, file, FALSE, Closure("bam", Skip))
check_raw(path, file) == check_file(path, file, FALSE, Closure("raw", Skip))

\* ------------------------------------------------------------ process_job
\* Job: [kind, path, file, path2, file2, length_check]; path2/file2 are used
\* by PairedFastq only.  CheckResult: [kind, r1, r2, pair_errors]; r1 is the
\* FileReport (fq1_report for a pair), r2 is fq2_report.
NoFile == [open |-> FALSE, bytes |-> <<>>]
Job(kind, path, file, path2, file2, length_check) ==
  [kind |-> kind, path |-> path, file |-> file, path2 |-> path2, file2 |-> file2,
   length_check |-> length_check]

CheckResult(kind, r1, r2, pair_errors) ==
  [kind |-> kind, r1 |-> r1, r2 |-> r2, pair_errors |-> pair_errors]

PairReport_is_ok(r) ==
  FileReport_is_ok(r.r1) /\ FileReport_is_ok(r.r2) /\ r.pair_errors = <<>>

CheckResult_is_error(r) ==
  IF r.kind = "PairedFastq" THEN ~PairReport_is_ok(r) ELSE ~FileReport_is_ok(r.r1)

CheckResult_primary_path(r) == r.r1.path

\* The PairedFastq arm of process_job: [result, rds].  s1, s2 are the two
\* setups, pr is what process_paired_readers returned, d1, d2 the readers
\* it dropped on return.
Aborted(id, path) == Msg("failed to parse; check aborted.", <<id>>, path, 0)

process_paired_reports(job, pr, d1, d2) ==
  IF ~pr.ok
  THEN [result |-> CheckResult("PairedFastq",
                     FileReport_new(job.path, NoneV, <<pr.err>>, <<>>),
                     FileReport_new(job.path2, NoneV, <<pr.err>>, <<>>),
                     <<Msg("Parsing error during paired fastq check.", <<>>, 0, 0)>>),
        rds |-> <<d1, d2>>]
  ELSE [result |-> CheckResult("PairedFastq",
                     FileReport_with_sha256(
                       FileReport_new(job.path, pr.outcome1.stats,
                                      pr.outcome1.errors, pr.outcome1.warnings),
                       TryFinalize(d1)),
                     FileReport_with_sha256(
                       FileReport_new(job.path2, pr.outcome2.stats,
                                      pr.outcome2.errors, pr.outcome2.warnings),
                       TryFinalize(d2)),
                     pr.pair_errors),
        rds |-> <<d1, d2>>]

process_paired_checked(job, pr) ==
  process_paired_reports(job, pr, DropReader(pr.rd1), DropReader(pr.rd2))

process_paired_setups(job, s1, s2) ==
  IF s1.ok /\ s2.ok
  THEN process_paired_checked(job, process_paired_readers(s1.rd, s2.rd, job.length_check))
  ELSE IF ~s1.ok /\ s2.ok
  THEN [result |-> CheckResult("PairedFastq",
                     FileReport_new_with_error(job.path, s1.err),
                     FileReport_new(job.path2, NoneV, <<Aborted("R1", job.path)>>, <<>>),
                     <<>>),
        rds |-> <<s1.rd, DropReader(s2.rd)>>]
  ELSE IF s1.ok /\ ~s2.ok
  THEN [result |-> CheckResult("PairedFastq",
                     FileReport_new(job.path, NoneV, <<Aborted("R2", job.path2)>>, <<>>),
                     FileReport_new_with_error(job.path2, s2.err),
                     <<>>),
        rds |-> <<DropReader(s1.rd), s2.rd>>]
  ELSE [result |-> CheckResult("PairedFastq",
                     FileReport_new_with_error(job.path, s1.err),
                     FileReport_new_with_error(job.path2, s2.err),
                     <<>>),
        rds |-> <<s1.rd, s2.rd>>]

process_paired_job(job) ==
  process_paired_setups(job, setup_file_reader(job.path, job.file, TRUE),
                        setup_file_reader(job.path2, job.file2, TRUE))

\* process_job: [result, rds]; rds are the job's reader stacks as dropped.
\* c is what the file check of a one-file job returned.
process_file_job(job, c) ==
  [result |-> CheckResult(job.kind, c.report, NoReport, <<>>), rds |-> <<c.rd>>]

process_job(job) ==
  IF job.kind = "PairedFastq" THEN process_paired_job(job)
  ELSE IF job.kind = "SingleFastq"
  THEN process_file_job(job, check_single_fastq(job.path, job.file, job.length_check))
  ELSE IF job.kind = "Bam" THEN process_file_job(job, check_bam(job.path, job.file))
  ELSE process_file_job(job, check_raw(job.path, job.file))


\* ------------------------------------------------ write_jsonl_report_entry
\* The status taken from nothing: always OK.
StatusOf_always_ok(ok) == "OK"
StatusOf(ok) == IF ok THEN "OK" ELSE "ERROR"
OptNumRecords(stats) == IF stats = NoneV THEN NoneV ELSE Some(Unwrap(stats).num_records)
OptReadLength(stats) == IF stats = NoneV THEN NoneV ELSE Unwrap(stats).read_length

FastqReport(path, status, stats, checksum, errors, warnings) ==
  [check_type |-> "fastq", path |-> path, status |-> status,
   num_records |-> OptNumRecords(stats), read_length |-> OptReadLength(stats),
   checksum |-> checksum, errors |-> errors, warnings |-> warnings]
BamReport(path, status, stats, checksum, errors, warnings) ==
  [check_type |-> "bam", path |-> path, status |-> status,
   num_records |-> OptNumRecords(stats),
   checksum |-> checksum, errors |-> errors, warnings |-> warnings]
RawReport(path, status, checksum, errors, warnings) ==
  [check_type |-> "raw", path |-> path, status |-> status,
   checksum |-> checksum, errors |-> errors, warnings |-> warnings]

\* write_jsonl_report_entry with the pair-level errors appended to R1's
\* line only.
write_jsonl_report_entry_pair_on_r1(result) ==
  IF result.kind = "PairedFastq"
  THEN LET is_pair_error == result.pair_errors # <<>>
           line(fr, errs) == FastqReport(fr.path,
                               StatusOf(FileReport_is_ok(fr) /\ errs = fr.errors),
                               fr.stats, fr.sha256, errs, fr.warnings)
       IN  <<line(result.r1, result.r1.errors \o result.pair_errors),
             line(result.r2, result.r2.errors)>>
  ELSE LET fr == result.r1
           status == StatusOf(FileReport_is_ok(fr))
       IN  IF result.kind = "SingleFastq"
           THEN <<FastqReport(fr.path, status, fr.stats, fr.sha256, fr.errors, fr.warnings)>>
           ELSE IF result.kind = "Bam"
           THEN <<BamReport(fr.path, status, fr.stats, fr.sha256, fr.errors, fr.warnings)>>
           ELSE <<RawReport(fr.path, status, fr.sha256, fr.errors, fr.warnings)>>

\* The lines write_jsonl_report_entry writes for one CheckResult, in order.
write_jsonl_report_entry(result) ==
  IF result.kind = "PairedFastq"
  THEN LET is_pair_error == result.pair_errors # <<>>
           line(fr) == FastqReport(fr.path,
                         StatusOf(FileReport_is_ok(fr) /\ ~is_pair_error),
                         fr.stats, fr.sha256,
                         IF is_pair_error THEN fr.errors \o result.pair_errors ELSE fr.errors,
                         fr.warnings)
       IN  <<line(result.r1), line(result.r2)>>
  ELSE LET fr == result.r1
           status == StatusOf(FileReport_is_ok(fr))
       IN  IF result.kind = "SingleFastq"
           THEN <<FastqReport(fr.path, status, fr.stats, fr.sha256, fr.errors, fr.warnings)>>
           ELSE IF result.kind = "Bam"
           THEN <<BamReport(fr.path, status, fr.stats, fr.sha256, fr.errors, fr.warnings)>>
           ELSE <<RawReport(fr.path, status, fr.sha256, fr.errors, fr.warnings)>>

\* ------------------------------------------------------------------ inputs
File(bytes) == [open |-> TRUE, bytes |-> bytes]

\* Decoded FASTQ streams: up to MaxRecs records, any of which may fail to
\* decode.
FastqDecoded == SeqsUpTo(LenSet \cup {BadByte}, MaxRecs)

\* FASTQ files: unopenable, zero bytes on disk, gzip-compressed, uncompressed.
FastqFiles ==
  {NoFile, File(<<>>)} \cup {File(Compress(d)) : d \in FastqDecoded}
    \cup {File(d) : d \in FastqDecoded \ {<<>>}}

BamFiles ==
  {NoFile, File(<<>>), File(<<HdrBad>>)}
    \cup {File(<<h>> \o d) : h \in {HdrEmpty, HdrInfo},
                             d \in SeqsUpTo(BamKinds \cup {BadByte}, MaxRecs)}

RawFiles == {NoFile} \cup {File(d) : d \in SeqsUpTo({7, 8}, MaxRecs)}

\* create_jobs: the jobs the command line can declare for job number j.
PathOf(j, mate) == 10 * j + mate

SingleJobsAt(j) ==
  {Job("SingleFastq", PathOf(j, 1), f, 0, NoFile, parse_len(v)) :
      f \in FastqFiles, v \in LenArgs}
PairedJobsAt(j) ==
  {Job("PairedFastq", PathOf(j, 1), f1, PathOf(j, 2), f2, parse_len(v)) :
      f1 \in FastqFiles, f2 \in FastqFiles, v \in LenArgs}
BamJobsAt(j) == {Job("Bam", PathOf(j, 1), f, 0, NoFile, Skip) : f \in BamFiles}
RawJobsAt(j) == {Job("Raw", PathOf(j, 1), f, 0, NoFile, Skip) : f \in RawFiles}

\* The jobs a batch of the scheduler model is built from: a single file that
\* passes, a single file that fails, a pair with mismatched read counts, a
\* raw file.
Catalogue(j) ==
  {Job("SingleFastq", PathOf(j, 1), File(Compress(<<4, 4>>)), 0, NoFile, Skip),
   Job("SingleFastq", PathOf(j, 1), File(Compress(<<4, 3>>)), 0, NoFile, Fixed(4)),
   Job("PairedFastq", PathOf(j, 1), File(Compress(<<4, 4, 4>>)),
       PathOf(j, 2), File(Compress(<<4>>)), Skip),
   Job("Raw", PathOf(j, 1), File(<<7, 8>>), 0, NoFile, Skip)}

\* ------------------------------------------------------------------- state
VARIABLES
  jobs,               \* Vec<Job> handed to run_check
  continue_on_error,  \* the batch policy
  shutdown_flag,      \* SHUTDOWN_FLAG
  jstate,             \* per job: Pending, Running, Completed, Skipped
  taken,              \* jobs the parallel iterator has handed to a worker
  wpc, wjob, wq,      \* per worker: position, current job, lines left to write
  results,            \* per job: the CheckResult of process_job
  streams,            \* per job: its reader stacks as they were dropped
  num_failed_jobs,    \* the AtomicUsize tally (continue-on-error)
  full,               \* rayon's stop indicator of try_for_each_with
  ret,                \* per job: what the fail-fast closure returned
  writer_lock,        \* holder of the writer mutex, 0 when free
  writer,             \* BufWriter<File>: buffered lines and lines on disk
  main_pc,            \* position of run_check
  processing_result,  \* what process_jobs returned
  batch_status,       \* the message process_jobs leaves on the overall bar
  final_flushes,      \* number of final flushes run_check performed
  exit,               \* how the process ended
  began_after_error,  \* jobs that began running after a job error was recorded
  running_at_interrupt, \* jobs that were running when the flag became set
  first_error,        \* the first job whose closure returned Err(Error), 0 if none
  write_errors,       \* stderr: jobs whose report entry failed to be written
  torn                \* the file on disk ends with part of the record heading buf

vars == <<jobs, continue_on_error, shutdown_flag, jstate, taken, wpc, wjob, wq,
          results, streams, num_failed_jobs, full, ret, writer_lock, writer,
          main_pc, processing_result, batch_status, final_flushes, exit,
          began_after_error, running_at_interrupt, first_error, write_errors, torn>>

Workers == 1..NumWorkers
JobIds == 1..Len(jobs)
NoResult == CheckResult("None", NoReport, NoReport, <<>>)
NoExit == [code |-> -1, path |-> 0]
ExitInterrupted == 130
ExitFailure == 1

InitWith(js, first_pc) ==
  /\ jobs = js
  /\ continue_on_error \in BOOLEAN
  /\ shutdown_flag = FALSE
  /\ jstate = [j \in 1..Len(js) |-> "Pending"]
  /\ taken = {}
  /\ wpc = [w \in Workers |-> "idle"]
  /\ wjob = [w \in Workers |-> 0]
  /\ wq = [w \in Workers |-> <<>>]
  /\ results = [j \in 1..Len(js) |-> NoResult]
  /\ streams = [j \in 1..Len(js) |-> <<>>]
  /\ num_failed_jobs = 0
  /\ full = FALSE
  /\ ret = [j \in 1..Len(js) |-> "none"]
  /\ writer_lock = 0
  /\ writer = [buf |-> <<>>, disk |-> <<>>]
  /\ main_pc = first_pc
  /\ processing_result = [ok |-> TRUE, reason |-> "none", job |-> 0]
  /\ batch_status = [msg |-> "", n |-> 0]
  /\ final_flushes = 0
  /\ exit = NoExit
  /\ began_after_error = {}
  /\ running_at_interrupt = {}
  /\ first_error = 0
  /\ write_errors = {}
  /\ torn = FALSE

\* The job lists of n jobs, job j drawn from Catalogue(j).
RECURSIVE JobLists(_)
JobLists(n) ==
  IF n = 0 THEN {<<>>}
  ELSE {Append(js, job) : js \in JobLists(n - 1), job \in Catalogue(n)}

Init == \E js \in JobLists(NumJobs) : InitWith(js, "process_jobs")

\* ----------------------------------------------------------- process_jobs
ErrorRecorded == \E j \in JobIds : ret[j] = "Error"

\* Take without the look at the stop indicator: for_each_with used for the
\* fail-fast batch as well.
Take_ignoring_full(w, j) ==
  /\ main_pc = "process_jobs" /\ wpc[w] = "idle"
  /\ j \in JobIds \ taken
  /\ taken' = taken \cup {j}
  /\ wjob' = [wjob EXCEPT ![w] = j]
  /\ wpc' = [wpc EXCEPT ![w] = "claimed"]
  /\ UNCHANGED <<first_error, write_errors, torn>>
  /\ UNCHANGED <<jobs, continue_on_error, shutdown_flag, jstate, wq, results, streams,
                 num_failed_jobs, full, ret, writer_lock, writer, main_pc,
                 processing_result, batch_status, final_flushes, exit, began_after_error,
                 running_at_interrupt>>

\* Take without removing the job from what is left to hand out.
Take_without_claim(w, j) ==
  /\ main_pc = "process_jobs" /\ wpc[w] = "idle"
  /\ continue_on_error \/ ~full
  /\ j \in JobIds /\ jstate[j] # "Completed"
  /\ wjob' = [wjob EXCEPT ![w] = j]
  /\ wpc' = [wpc EXCEPT ![w] = "claimed"]
  /\ UNCHANGED <<first_error, write_errors, torn>>
  /\ UNCHANGED <<jobs, continue_on_error, shutdown_flag, jstate, taken, wq, results, streams,
                 num_failed_jobs, full, ret, writer_lock, writer, main_pc,
                 processing_result, batch_status, final_flushes, exit, began_after_error,
                 running_at_interrupt>>

\* The parallel iterator hands the next job to an idle worker.  Under
\* try_for_each_with a worker first consults rayon's stop indicator.
Take(w, j) ==
  /\ main_pc = "process_jobs" /\ wpc[w] = "idle"
  /\ continue_on_error \/ ~full
  /\ j \in JobIds \ taken
  /\ taken' = taken \cup {j}
  /\ wjob' = [wjob EXCEPT ![w] = j]
  /\ wpc' = [wpc EXCEPT ![w] = "claimed"]
  /\ UNCHANGED <<first_error, write_errors, torn>>
  /\ UNCHANGED <<jobs, continue_on_error, shutdown_flag, jstate, wq, results, streams,
                 num_failed_jobs, full, ret, writer_lock, writer, main_pc,
                 processing_result, batch_status, final_flushes, exit, began_after_error,
                 running_at_interrupt>>

\* Stop with the continue-on-error loop giving up as soon as a failure has
\* been tallied.
Stop_on_tally(w) ==
  /\ main_pc = "process_jobs" /\ wpc[w] = "idle"
  /\ (~continue_on_error /\ full) \/ num_failed_jobs > 0 \/ JobIds \ taken = {}
  /\ wpc' = [wpc EXCEPT ![w] = "stopped"]
  /\ UNCHANGED <<first_error, write_errors, torn>>
  /\ UNCHANGED <<jobs, continue_on_error, shutdown_flag, jstate, taken, wjob, wq, results,
                 streams, num_failed_jobs, full, ret, writer_lock, writer, main_pc,
                 processing_result, batch_status, final_flushes, exit, began_after_error,
                 running_at_interrupt>>

\* A worker has nothing left to take: no job is left, or the stop indicator
\* is set.
Stop(w) ==
  /\ main_pc = "process_jobs" /\ wpc[w] = "idle"
  /\ (~continue_on_error /\ full) \/ JobIds \ taken = {}
  /\ wpc' = [wpc EXCEPT ![w] = "stopped"]
  /\ UNCHANGED <<first_error, write_errors, torn>>
  /\ UNCHANGED <<jobs, continue_on_error, shutdown_flag, jstate, taken, wjob, wq, results,
                 streams, num_failed_jobs, full, ret, writer_lock, writer, main_pc,
                 processing_result, batch_status, final_flushes, exit, began_after_error,
                 running_at_interrupt>>

\* The closure begins: shutdown_flag.load().  Set: the job is not run
\* (continue-on-error returns, fail-fast returns Err(Interrupted)).
BeginSkip(w) ==
  /\ main_pc = "process_jobs" /\ wpc[w] = "claimed" /\ shutdown_flag
  /\ jstate' = [jstate EXCEPT ![wjob[w]] = "Skipped"]
  /\ wpc' = [wpc EXCEPT ![w] = "idle"]
  /\ ret' = IF continue_on_error THEN ret ELSE [ret EXCEPT ![wjob[w]] = "Interrupted"]
  /\ full' = IF continue_on_error THEN full ELSE TRUE
  /\ UNCHANGED <<first_error, write_errors, torn>>
  /\ UNCHANGED <<jobs, continue_on_error, shutdown_flag, taken, wjob, wq, results, streams,
                 num_failed_jobs, writer_lock, writer, main_pc, processing_result,
                 batch_status, final_flushes, exit, began_after_error,
                 running_at_interrupt>>

BeginRun(w) ==
  /\ main_pc = "process_jobs" /\ wpc[w] = "claimed" /\ ~shutdown_flag
  /\ jstate' = [jstate EXCEPT ![wjob[w]] = "Running"]
  /\ wpc' = [wpc EXCEPT ![w] = "running"]
  /\ began_after_error' = IF ErrorRecorded THEN began_after_error \cup {wjob[w]}
                          ELSE began_after_error
  /\ UNCHANGED <<first_error, write_errors, torn>>
  /\ UNCHANGED <<jobs, continue_on_error, shutdown_flag, taken, wjob, wq, results, streams,
                 num_failed_jobs, full, ret, writer_lock, writer, main_pc,
                 processing_result, batch_status, final_flushes, exit,
                 running_at_interrupt>>

\* Finish with a second look at the flag when process_job returns: the
\* result of a job that ran through an interrupt is thrown away.
Finish_polling_flag(w) ==
  /\ main_pc = "process_jobs" /\ wpc[w] = "running"
  /\ LET pj == process_job(jobs[wjob[w]])
     IN  IF shutdown_flag
         THEN /\ jstate' = [jstate EXCEPT ![wjob[w]] = "Skipped"]
              /\ wpc' = [wpc EXCEPT ![w] = "idle"]
              /\ UNCHANGED <<results, streams, num_failed_jobs>>
         ELSE /\ results' = [results EXCEPT ![wjob[w]] = pj.result]
              /\ streams' = [streams EXCEPT ![wjob[w]] = pj.rds]
              /\ num_failed_jobs' = IF continue_on_error /\ CheckResult_is_error(pj.result)
                                    THEN num_failed_jobs + 1 ELSE num_failed_jobs
              /\ wpc' = [wpc EXCEPT ![w] = "lock"]
              /\ UNCHANGED jstate
  /\ UNCHANGED <<first_error, write_errors, torn>>
  /\ UNCHANGED <<jobs, continue_on_error, shutdown_flag, taken, wjob, wq, full, ret,
                 writer_lock, writer, main_pc, processing_result, batch_status,
                 final_flushes, exit, began_after_error, running_at_interrupt>>

\* Finish tallying a failed pair once per mate.
Finish_counting_files(w) ==
  /\ main_pc = "process_jobs" /\ wpc[w] = "running"
  /\ LET pj == process_job(jobs[wjob[w]])
     IN  /\ results' = [results EXCEPT ![wjob[w]] = pj.result]
         /\ streams' = [streams EXCEPT ![wjob[w]] = pj.rds]
         /\ num_failed_jobs' = IF continue_on_error /\ CheckResult_is_error(pj.result)
                               THEN num_failed_jobs
                                      + (IF pj.result.kind = "PairedFastq" THEN 2 ELSE 1)
                               ELSE num_failed_jobs
  /\ wpc' = [wpc EXCEPT ![w] = "lock"]
  /\ UNCHANGED <<first_error, write_errors, torn>>
  /\ UNCHANGED <<jobs, continue_on_error, shutdown_flag, jstate, taken, wjob, wq, full, ret,
                 writer_lock, writer, main_pc, processing_result, batch_status,
                 final_flushes, exit, began_after_error,
                 running_at_interrupt>>

\* Finish with one error list shared by all jobs: a job that returns after
\* another job has failed reports that failure as its own.
Finish_sharing_errors(w) ==
  /\ main_pc = "process_jobs" /\ wpc[w] = "running"
  /\ LET pj == process_job(jobs[wjob[w]])
         failed == CheckResult_is_error(pj.result)
     IN  /\ results' = [results EXCEPT ![wjob[w]] =
                          IF num_failed_jobs > 0 /\ ~failed
                          THEN [pj.result EXCEPT !.r1.errors =
                                  <<Msg("Error of another job", <<>>, 0, 0)>>]
                          ELSE pj.result]
         /\ streams' = [streams EXCEPT ![wjob[w]] = pj.rds]
         /\ num_failed_jobs' = IF continue_on_error /\ failed
                               THEN num_failed_jobs + 1 ELSE num_failed_jobs
  /\ wpc' = [wpc EXCEPT ![w] = "lock"]
  /\ UNCHANGED <<first_error, write_errors, torn>>
  /\ UNCHANGED <<jobs, continue_on_error, shutdown_flag, jstate, taken, wjob, wq, full, ret,
                 writer_lock, writer, main_pc, processing_result, batch_status,
                 final_flushes, exit, began_after_error,
                 running_at_interrupt>>

\* process_job returns; under continue-on-error a failed job is tallied.
Finish(w) ==
  /\ main_pc = "process_jobs" /\ wpc[w] = "running"
  /\ LET pj == process_job(jobs[wjob[w]])
     IN  /\ results' = [results EXCEPT ![wjob[w]] = pj.result]
         /\ streams' = [streams EXCEPT ![wjob[w]] = pj.rds]
         /\ num_failed_jobs' = IF continue_on_error /\ CheckResult_is_error(pj.result)
                               THEN num_failed_jobs + 1 ELSE num_failed_jobs
  /\ wpc' = [wpc EXCEPT ![w] = "lock"]
  /\ UNCHANGED <<first_error, write_errors, torn>>
  /\ UNCHANGED <<jobs, continue_on_error, shutdown_flag, jstate, taken, wjob, wq, full, ret,
                 writer_lock, writer, main_pc, processing_result, batch_status,
                 final_flushes, exit, began_after_error,
                 running_at_interrupt>>

\* Lock without waiting for the mutex to be free.
Lock_without_waiting(w) ==
  /\ main_pc = "process_jobs" /\ wpc[w] = "lock"
  /\ writer_lock' = w
  /\ wq' = [wq EXCEPT ![w] = write_jsonl_report_entry(results[wjob[w]])]
  /\ wpc' = [wpc EXCEPT ![w] = "write"]
  /\ UNCHANGED <<first_error, write_errors, torn>>
  /\ UNCHANGED <<jobs, continue_on_error, shutdown_flag, jstate, taken, wjob, results,
                 streams, num_failed_jobs, full, ret, writer, main_pc, processing_result,
                 batch_status, final_flushes, exit, began_after_error,
                 running_at_interrupt>>

\* writer.lock().unwrap()
Lock(w) ==
  /\ main_pc = "process_jobs" /\ wpc[w] = "lock" /\ writer_lock = 0
  /\ writer_lock' = w
  /\ wq' = [wq EXCEPT ![w] = write_jsonl_report_entry(results[wjob[w]])]
  /\ wpc' = [wpc EXCEPT ![w] = "write"]
  /\ UNCHANGED <<first_error, write_errors, torn>>
  /\ UNCHANGED <<jobs, continue_on_error, shutdown_flag, jstate, taken, wjob, results,
                 streams, num_failed_jobs, full, ret, writer, main_pc, processing_result,
                 batch_status, final_flushes, exit, began_after_error,
                 running_at_interrupt>>

\* WriteLine letting the line go without handing it to the BufWriter.
WriteLine_dropping(w) ==
  /\ main_pc = "process_jobs" /\ wpc[w] = "write" /\ wq[w] # <<>>
  /\ wq' = [wq EXCEPT ![w] = Tail(@)]
  /\ wpc' = [wpc EXCEPT ![w] = IF Len(wq[w]) > 1 THEN "write"
                               ELSE IF continue_on_error THEN "unlock" ELSE "flush"]
  /\ UNCHANGED <<first_error, write_errors, torn>>
  /\ UNCHANGED <<jobs, continue_on_error, shutdown_flag, jstate, taken, wjob, results,
                 streams, num_failed_jobs, full, ret, writer_lock, writer, main_pc,
                 processing_result, batch_status, final_flushes, exit, began_after_error,
                 running_at_interrupt>>

\* One line of write_jsonl_report_entry goes into the BufWriter.
WriteLine(w) ==
  /\ main_pc = "process_jobs" /\ wpc[w] = "write" /\ wq[w] # <<>>
  /\ writer' = [writer EXCEPT !.buf = Append(@, Head(wq[w]))]
  /\ wq' = [wq EXCEPT ![w] = Tail(@)]
  /\ wpc' = [wpc EXCEPT ![w] = IF Len(wq[w]) > 1 THEN "write"
                               ELSE IF continue_on_error THEN "unlock" ELSE "flush"]
  /\ UNCHANGED <<first_error, write_errors, torn>>
  /\ UNCHANGED <<jobs, continue_on_error, shutdown_flag, jstate, taken, wjob, results,
                 streams, num_failed_jobs, full, ret, writer_lock, main_pc,
                 processing_result, batch_status, final_flushes, exit, began_after_error,
                 running_at_interrupt>>

\* A flush that empties the BufWriter without writing to the file.
Flush_dropping(w) ==
  /\ main_pc = "process_jobs" /\ wpc[w] = "flush"
  /\ writer' = [buf |-> <<>>, disk |-> writer.disk]
  /\ wpc' = [wpc EXCEPT ![w] = "unlock"]
  /\ torn' = FALSE
  /\ UNCHANGED <<first_error, write_errors>>
  /\ UNCHANGED <<jobs, continue_on_error, shutdown_flag, jstate, taken, wjob, wq, results,
                 streams, num_failed_jobs, full, ret, writer_lock, main_pc,
                 processing_result, batch_status, final_flushes, exit, began_after_error,
                 running_at_interrupt>>

\* writer_guard.flush().ok()  (fail-fast only)
Flush(w) ==
  /\ main_pc = "process_jobs" /\ wpc[w] = "flush"
  /\ writer' = [buf |-> <<>>, disk |-> writer.disk \o writer.buf]
  /\ wpc' = [wpc EXCEPT ![w] = "unlock"]
  /\ torn' = FALSE
  /\ UNCHANGED <<first_error, write_errors>>
  /\ UNCHANGED <<jobs, continue_on_error, shutdown_flag, jstate, taken, wjob, wq, results,
                 streams, num_failed_jobs, full, ret, writer_lock, main_pc,
                 processing_result, batch_status, final_flushes, exit, began_after_error,
                 running_at_interrupt>>

\* Unlock with the guard leaked: the mutex stays locked.
Unlock_keeping_lock(w) ==
  /\ main_pc = "process_jobs" /\ wpc[w] = "unlock"
  /\ wpc' = [wpc EXCEPT ![w] = IF continue_on_error THEN "idle" ELSE "return"]
  /\ jstate' = IF continue_on_error THEN [jstate EXCEPT ![wjob[w]] = "Completed"] ELSE jstate
  /\ UNCHANGED <<first_error, write_errors, torn>>
  /\ UNCHANGED <<jobs, continue_on_error, shutdown_flag, taken, wjob, wq, results, streams,
                 num_failed_jobs, full, ret, writer_lock, writer, main_pc,
                 processing_result, batch_status, final_flushes, exit, began_after_error,
                 running_at_interrupt>>

\* The guard is dropped.  Under continue-on-error this is the end of the
\* closure; under fail-fast the result is still to be returned.
Unlock(w) ==
  /\ main_pc = "process_jobs" /\ wpc[w] = "unlock"
  /\ writer_lock' = 0
  /\ wpc' = [wpc EXCEPT ![w] = IF continue_on_error THEN "idle" ELSE "return"]
  /\ jstate' = IF continue_on_error THEN [jstate EXCEPT ![wjob[w]] = "Completed"] ELSE jstate
  /\ UNCHANGED <<first_error, write_errors, torn>>
  /\ UNCHANGED <<jobs, continue_on_error, shutdown_flag, taken, wjob, wq, results, streams,
                 num_failed_jobs, full, ret, writer, main_pc, processing_result,
                 batch_status, final_flushes, exit, began_after_error,
                 running_at_interrupt>>

\* The fail-fast closure returns Err(Error(report)) or Ok(()); an Err sets
\* rayon's stop indicator.
Return(w) ==
  /\ main_pc = "process_jobs" /\ wpc[w] = "return"
  /\ LET failed == CheckResult_is_error(results[wjob[w]])
     IN  /\ ret' = [ret EXCEPT ![wjob[w]] = IF failed THEN "Error" ELSE "Ok"]
         /\ full' = (full \/ failed)
         /\ first_error' = IF failed /\ first_error = 0 THEN wjob[w] ELSE first_error
  /\ jstate' = [jstate EXCEPT ![wjob[w]] = "Completed"]
  /\ wpc' = [wpc EXCEPT ![w] = "idle"]
  /\ UNCHANGED <<write_errors, torn>>
  /\ UNCHANGED <<jobs, continue_on_error, shutdown_flag, taken, wjob, wq, results, streams,
                 num_failed_jobs, writer_lock, writer, main_pc, processing_result,
                 batch_status, final_flushes, exit, began_after_error,
                 running_at_interrupt>>

\* process_jobs returns once every worker is done.  try_for_each_with
\* yields the Err of the leftmost job that returned one.
ReturnedErrs == {j \in JobIds : ret[j] \in {"Error", "Interrupted"}}
Leftmost(S) == CHOOSE j \in S : \A k \in S : j <= k

\* JoinReturn yielding the Err(Error) that was returned first in time.
\* process_jobs handing a failed job back under continue-on-error too.
JoinReturn_failing_batch ==
  /\ main_pc = "process_jobs"
  /\ \A w \in Workers : wpc[w] = "stopped"
  /\ processing_result' =
       IF continue_on_error /\ num_failed_jobs > 0
       THEN [ok |-> FALSE, reason |-> "Error",
             job |-> Leftmost({j \in JobIds : CheckResult_is_error(results[j])})]
       ELSE IF continue_on_error \/ ReturnedErrs = {}
       THEN [ok |-> TRUE, reason |-> "none", job |-> 0]
       ELSE [ok |-> FALSE, reason |-> ret[Leftmost(ReturnedErrs)],
             job |-> Leftmost(ReturnedErrs)]
  /\ batch_status' =
       IF ~continue_on_error THEN batch_status
       ELSE IF shutdown_flag THEN [msg |-> "Operation cancelled by user.", n |-> 0]
       ELSE IF num_failed_jobs > 0
            THEN [msg |-> "Processing complete. pairs/files failed.", n |-> num_failed_jobs]
       ELSE [msg |-> "All checks passed!", n |-> 0]
  /\ main_pc' = "joined"
  /\ UNCHANGED <<first_error, write_errors, torn>>
  /\ UNCHANGED <<jobs, continue_on_error, shutdown_flag, jstate, taken, wpc, wjob, wq,
                 results, streams, num_failed_jobs, full, ret, writer_lock, writer,
                 final_flushes, exit, began_after_error,
                 running_at_interrupt>>

JoinReturn_first_recorded ==
  /\ main_pc = "process_jobs"
  /\ \A w \in Workers : wpc[w] = "stopped"
  /\ processing_result' =
       IF continue_on_error \/ ReturnedErrs = {}
       THEN [ok |-> TRUE, reason |-> "none", job |-> 0]
       ELSE IF first_error # 0
       THEN [ok |-> FALSE, reason |-> "Error", job |-> first_error]
       ELSE [ok |-> FALSE, reason |-> ret[Leftmost(ReturnedErrs)],
             job |-> Leftmost(ReturnedErrs)]
  /\ batch_status' =
       IF ~continue_on_error THEN batch_status
       ELSE IF shutdown_flag THEN [msg |-> "Operation cancelled by user.", n |-> 0]
       ELSE IF num_failed_jobs > 0
            THEN [msg |-> "Processing complete. pairs/files failed.", n |-> num_failed_jobs]
       ELSE [msg |-> "All checks passed!", n |-> 0]
  /\ main_pc' = "joined"
  /\ UNCHANGED <<first_error, write_errors, torn>>
  /\ UNCHANGED <<jobs, continue_on_error, shutdown_flag, jstate, taken, wpc, wjob, wq,
                 results, streams, num_failed_jobs, full, ret, writer_lock, writer,
                 final_flushes, exit, began_after_error,
                 running_at_interrupt>>

\* JoinReturn as soon as one worker has stopped, the others not awaited.
JoinReturn_without_join ==
  /\ main_pc = "process_jobs"
  /\ \E w \in Workers : wpc[w] = "stopped"
  /\ processing_result' =
       IF continue_on_error \/ ReturnedErrs = {}
       THEN [ok |-> TRUE, reason |-> "none", job |-> 0]
       ELSE [ok |-> FALSE, reason |-> ret[Leftmost(ReturnedErrs)],
             job |-> Leftmost(ReturnedErrs)]
  /\ batch_status' =
       IF ~continue_on_error THEN batch_status
       ELSE IF shutdown_flag THEN [msg |-> "Operation cancelled by user.", n |-> 0]
       ELSE IF num_failed_jobs > 0
            THEN [msg |-> "Processing complete. pairs/files failed.", n |-> num_failed_jobs]
       ELSE [msg |-> "All checks passed!", n |-> 0]
  /\ main_pc' = "joined"
  /\ UNCHANGED <<first_error, write_errors, torn>>
  /\ UNCHANGED <<jobs, continue_on_error, shutdown_flag, jstate, taken, wpc, wjob, wq,
                 results, streams, num_failed_jobs, full, ret, writer_lock, writer,
                 final_flushes, exit, began_after_error,
                 running_at_interrupt>>

JoinReturn ==
  /\ main_pc = "process_jobs"
  /\ \A w \in Workers : wpc[w] = "stopped"
  /\ processing_result' =
       IF continue_on_error \/ ReturnedErrs = {}
       THEN [ok |-> TRUE, reason |-> "none", job |-> 0]
       ELSE [ok |-> FALSE, reason |-> ret[Leftmost(ReturnedErrs)],
             job |-> Leftmost(ReturnedErrs)]
  /\ batch_status' =
       IF ~continue_on_error THEN batch_status
       ELSE IF shutdown_flag THEN [msg |-> "Operation cancelled by user.", n |-> 0]
       ELSE IF num_failed_jobs > 0
            THEN [msg |-> "Processing complete. pairs/files failed.", n |-> num_failed_jobs]
       ELSE [msg |-> "All checks passed!", n |-> 0]
  /\ main_pc' = "joined"
  /\ UNCHANGED <<first_error, write_errors, torn>>
  /\ UNCHANGED <<jobs, continue_on_error, shutdown_flag, jstate, taken, wpc, wjob, wq,
                 results, streams, num_failed_jobs, full, ret, writer_lock, writer,
                 final_flushes, exit, began_after_error,
                 running_at_interrupt>>

\* run_check: Arc::try_unwrap(writer), into_inner, flush.
FinalFlush ==
  /\ main_pc = "joined"
  /\ writer' = [buf |-> <<>>, disk |-> writer.disk \o writer.buf]
  /\ final_flushes' = final_flushes + 1
  /\ main_pc' = "flushed"
  /\ torn' = FALSE
  /\ UNCHANGED <<first_error, write_errors>>
  /\ UNCHANGED <<jobs, continue_on_error, shutdown_flag, jstate, taken, wpc, wjob, wq,
                 results, streams, num_failed_jobs, full, ret, writer_lock,
                 processing_result, batch_status, exit, began_after_error,
                 running_at_interrupt>>

\* run_check without the look at the flag in the Ok arm.
RunCheckOutcome_ignoring_flag(result, flag, res) ==
  IF result.ok
  THEN [code |-> 0, path |-> 0]
  ELSE IF result.reason = "Error"
       THEN [code |-> ExitFailure, path |-> CheckResult_primary_path(res[result.job])]
       ELSE [code |-> ExitInterrupted, path |-> 0]

\* run_check: match processing_result.
RunCheckOutcome(result, flag, res) ==
  IF result.ok
  THEN IF flag THEN [code |-> ExitInterrupted, path |-> 0] ELSE [code |-> 0, path |-> 0]
  ELSE IF result.reason = "Error"
       THEN [code |-> ExitFailure, path |-> CheckResult_primary_path(res[result.job])]
       ELSE [code |-> ExitInterrupted, path |-> 0]

Decide ==
  /\ main_pc = "flushed"
  /\ exit' = RunCheckOutcome(processing_result, shutdown_flag, results)
  /\ main_pc' = "done"
  /\ UNCHANGED <<first_error, write_errors, torn>>
  /\ UNCHANGED <<jobs, continue_on_error, shutdown_flag, jstate, taken, wpc, wjob, wq,
                 results, streams, num_failed_jobs, full, ret, writer_lock, writer,
                 processing_result, batch_status, final_flushes, began_after_error,
                 running_at_interrupt>>

\* The handler exiting on the first interrupt.
Interrupt_exiting ==
  /\ main_pc \in {"process_jobs", "joined", "flushed"}
  /\ ~shutdown_flag
  /\ shutdown_flag' = TRUE
  /\ running_at_interrupt' = {j \in JobIds : jstate[j] = "Running"}
  /\ exit' = [code |-> ExitInterrupted, path |-> 0]
  /\ main_pc' = "exited"
  /\ UNCHANGED <<first_error, write_errors, torn>>
  /\ UNCHANGED <<jobs, continue_on_error, jstate, taken, wpc, wjob, wq, results, streams,
                 num_failed_jobs, full, ret, writer_lock, writer,
                 processing_result, batch_status, final_flushes, began_after_error>>

\* setup_signal_handler: the first interrupt sets the flag and the process
\* keeps running.
Interrupt ==
  /\ main_pc \in {"process_jobs", "joined", "flushed"}
  /\ ~shutdown_flag
  /\ shutdown_flag' = TRUE
  /\ running_at_interrupt' = {j \in JobIds : jstate[j] = "Running"}
  /\ UNCHANGED <<first_error, write_errors, torn>>
  /\ UNCHANGED <<jobs, continue_on_error, jstate, taken, wpc, wjob, wq, results, streams,
                 num_failed_jobs, full, ret, writer_lock, writer, main_pc,
                 processing_result, batch_status, final_flushes, exit, began_after_error>>

\* setup_signal_handler: an interrupt that finds the flag set exits the
\* process at once with code 130; nothing buffered is flushed.
SecondInterrupt ==
  /\ main_pc \in {"process_jobs", "joined", "flushed"}
  /\ shutdown_flag
  /\ exit' = [code |-> ExitInterrupted, path |-> 0]
  /\ main_pc' = "exited"
  /\ UNCHANGED <<first_error, write_errors, torn>>
  /\ UNCHANGED <<jobs, continue_on_error, shutdown_flag, jstate, taken, wpc, wjob, wq,
                 results, streams, num_failed_jobs, full, ret, writer_lock, writer,
                 processing_result, batch_status, final_flushes, began_after_error,
                 running_at_interrupt>>

Next ==
  \/ \E w \in Workers : \E j \in JobIds : Take(w, j)
  \/ \E w \in Workers : Stop(w)
  \/ \E w \in Workers : BeginSkip(w)
  \/ \E w \in Workers : BeginRun(w)
  \/ \E w \in Workers : Finish(w)
  \/ \E w \in Workers : Lock(w)
  \/ \E w \in Workers : WriteLine(w)
  \/ \E w \in Workers : Flush(w)
  \/ \E w \in Workers : Unlock(w)
  \/ \E w \in Workers : Return(w)
  \/ JoinReturn
  \/ FinalFlush
  \/ Decide
  \/ Interrupt
  \/ SecondInterrupt

Spec == Init /\ [][Next]_vars

\* ------------------------------------------- the report file under stress
\* The same batch with the report file able to fail and the BufWriter able
\* to run full.  serde_json::to_writer hands a record to the BufWriter piece
\* by piece; a piece that does not fit makes the BufWriter write out what it
\* holds, the leading pieces of the record included.
Partial(line) == [check_type |-> "partial", path |-> line.path]

\* The BufWriter runs full while the record heading wq[w] is being written.
Spill(w) ==
  /\ main_pc = "process_jobs" /\ wpc[w] = "write" /\ wq[w] # <<>>
  /\ ~torn
  /\ writer' = [buf |-> <<>>, disk |-> writer.disk \o writer.buf]
  /\ torn' = TRUE
  /\ UNCHANGED <<first_error, write_errors>>
  /\ UNCHANGED <<jobs, continue_on_error, shutdown_flag, jstate, taken, wpc, wjob, wq,
                 results, streams, num_failed_jobs, full, ret, writer_lock, main_pc,
                 processing_result, batch_status, final_flushes, exit, began_after_error,
                 running_at_interrupt>>

\* WriteFail taken for a failure of the job: it is tallied under
\* continue-on-error and sets the stop indicator under fail-fast.
WriteFail_failing_job(w) ==
  /\ main_pc = "process_jobs" /\ wpc[w] = "write" /\ wq[w] # <<>>
  /\ wq' = [wq EXCEPT ![w] = <<>>]
  /\ write_errors' = write_errors \cup {wjob[w]}
  /\ \E part \in BOOLEAN :
       writer' = IF part \/ torn THEN [writer EXCEPT !.buf = Append(@, Partial(Head(wq[w])))]
                 ELSE writer
  /\ wpc' = [wpc EXCEPT ![w] = IF continue_on_error THEN "unlock" ELSE "flush"]
  /\ num_failed_jobs' = IF continue_on_error THEN num_failed_jobs + 1 ELSE num_failed_jobs
  /\ full' = IF continue_on_error THEN full ELSE TRUE
  /\ UNCHANGED <<first_error, torn>>
  /\ UNCHANGED <<jobs, continue_on_error, shutdown_flag, jstate, taken, wjob, results,
                 streams, ret, writer_lock, main_pc,
                 processing_result, batch_status, final_flushes, exit, began_after_error,
                 running_at_interrupt>>

\* write_jsonl_report_entry returns Err: the closure prints the failure to
\* stderr and goes on.  The rest of the entry is not written; of the record
\* that failed, a leading part may have reached the BufWriter.
WriteFail(w) ==
  /\ main_pc = "process_jobs" /\ wpc[w] = "write" /\ wq[w] # <<>>
  /\ wq' = [wq EXCEPT ![w] = <<>>]
  /\ write_errors' = write_errors \cup {wjob[w]}
  /\ \E part \in BOOLEAN :
       writer' = IF part \/ torn THEN [writer EXCEPT !.buf = Append(@, Partial(Head(wq[w])))]
                 ELSE writer
  /\ wpc' = [wpc EXCEPT ![w] = IF continue_on_error THEN "unlock" ELSE "flush"]
  /\ UNCHANGED <<first_error, torn>>
  /\ UNCHANGED <<jobs, continue_on_error, shutdown_flag, jstate, taken, wjob, results,
                 streams, num_failed_jobs, full, ret, writer_lock, main_pc,
                 processing_result, batch_status, final_flushes, exit, began_after_error,
                 running_at_interrupt>>

\* writer_guard.flush().ok() with the flush failing: the Err is discarded.
FlushFail(w) ==
  /\ main_pc = "process_jobs" /\ wpc[w] = "flush"
  /\ wpc' = [wpc EXCEPT ![w] = "unlock"]
  /\ UNCHANGED <<first_error, write_errors, torn>>
  /\ UNCHANGED <<jobs, continue_on_error, shutdown_flag, jstate, taken, wjob, wq, results,
                 streams, num_failed_jobs, full, ret, writer_lock, writer, main_pc,
                 processing_result, batch_status, final_flushes, exit, began_after_error,
                 running_at_interrupt>>

\* run_check: the final flush fails and its Err is returned with `?`.
FinalFlushFail ==
  /\ main_pc = "joined"
  /\ final_flushes' = final_flushes + 1
  /\ exit' = [code |-> ExitFailure, path |-> 0]
  /\ main_pc' = "done"
  /\ UNCHANGED <<first_error, write_errors, torn>>
  /\ UNCHANGED <<jobs, continue_on_error, shutdown_flag, jstate, taken, wpc, wjob, wq,
                 results, streams, num_failed_jobs, full, ret, writer_lock, writer,
                 processing_result, batch_status, began_after_error,
                 running_at_interrupt>>

\* The batches of the stressed sink, one job shorter: a single file that
\* passes or a pair with mismatched read counts at each position.
SinkJobLists ==
  {js \in JobLists(NumJobs - 1) :
     \A j \in 1..(NumJobs - 1) : js[j].kind # "Raw" /\ js[j].length_check = Skip}

InitSink == \E js \in SinkJobLists : InitWith(js, "process_jobs")

NextSink ==
  \/ Next
  \/ \E w \in Workers : Spill(w)
  \/ \E w \in Workers : WriteFail(w)
  \/ \E w \in Workers : FlushFail(w)
  \/ FinalFlushFail

SpecSink == InitSink /\ [][NextSink]_vars

\* ------------------------------------------------------ fair scheduling
\* The scheduler with every worker thread and the main thread scheduled
\* fairly: a thread that can take a step, and stays able to, takes one.  The
\* interrupts come from outside and are under no such obligation.  The
\* batches are the short ones of InitSink.
\* process_job returning, seen through the worker's position alone: a
\* worker at "running" can always take this step, and Finish is the only
\* action that takes it.
Finishing(w) ==
  /\ main_pc = "process_jobs" /\ wpc[w] = "running"
  /\ wpc' = [wpc EXCEPT ![w] = "lock"]

WorkerStep(w) ==
  \/ \E j \in JobIds : Take(w, j)
  \/ Stop(w) \/ BeginSkip(w) \/ BeginRun(w)
  \/ Lock(w) \/ WriteLine(w) \/ Flush(w) \/ Unlock(w) \/ Return(w)

MainStep == JoinReturn \/ FinalFlush \/ Decide

Fairness ==
  /\ \A w \in Workers : WF_vars(WorkerStep(w)) /\ WF_wpc(Finishing(w))
  /\ WF_vars(MainStep)

SpecFair == InitSink /\ [][Next]_vars /\ Fairness

\* ------------------------------------------------------- one job, in full
\* One job drawn from every input within the bounds, run through
\* process_job and written with write_jsonl_report_entry.
InitCheck ==
  \/ \E job \in SingleJobsAt(1) : InitWith(<<job>>, "check")
  \/ \E job \in PairedJobsAt(1) : InitWith(<<job>>, "check")
  \/ \E job \in BamJobsAt(1) : InitWith(<<job>>, "check")
  \/ \E job \in RawJobsAt(1) : InitWith(<<job>>, "check")

CheckRun ==
  /\ main_pc = "check"
  /\ LET pj == process_job(jobs[1])
     IN  /\ results' = [results EXCEPT ![1] = pj.result]
         /\ streams' = [streams EXCEPT ![1] = pj.rds]
  /\ jstate' = [jstate EXCEPT ![1] = "Running"]
  /\ main_pc' = "checked"
  /\ UNCHANGED <<first_error, write_errors, torn>>
  /\ UNCHANGED <<jobs, continue_on_error, shutdown_flag, taken, wpc, wjob, wq,
                 num_failed_jobs, full, ret, writer_lock, writer, processing_result,
                 batch_status, final_flushes, exit, began_after_error,
                 running_at_interrupt>>

CheckWrite ==
  /\ main_pc = "checked"
  /\ writer' = [writer EXCEPT !.disk = @ \o write_jsonl_report_entry(results[1])]
  /\ jstate' = [jstate EXCEPT ![1] = "Completed"]
  /\ main_pc' = "written"
  /\ UNCHANGED <<first_error, write_errors, torn>>
  /\ UNCHANGED <<jobs, continue_on_error, shutdown_flag, taken, wpc, wjob, wq, results,
                 streams, num_failed_jobs, full, ret, writer_lock, processing_result,
                 batch_status, final_flushes, exit, began_after_error,
                 running_at_interrupt>>

NextCheck == CheckRun \/ CheckWrite

SpecCheck == InitCheck /\ [][NextCheck]_vars

\* ------------------------------------------------ run_check from its entry
\* run_check from its first statement, with every `?` of its body taken:
\* the handler that cannot be installed, the report file that cannot be
\* created, the final flush that fails, the progress display that cannot be
\* cleared.
\* run_check: setup_signal_handler() returns Ok.
SetHandler ==
  /\ main_pc = "run_check"
  /\ main_pc' = "handler_set"
  /\ UNCHANGED <<first_error, write_errors, torn>>
  /\ UNCHANGED <<jobs, continue_on_error, shutdown_flag, jstate, taken, wpc, wjob, wq,
                 results, streams, num_failed_jobs, full, ret, writer_lock, writer,
                 processing_result, batch_status, final_flushes, exit, began_after_error,
                 running_at_interrupt>>

\* run_check: setup_signal_handler()? returns the error of ctrlc::set_handler.
SetHandlerFail ==
  /\ main_pc = "run_check"
  /\ exit' = [code |-> ExitFailure, path |-> 0]
  /\ main_pc' = "done"
  /\ UNCHANGED <<first_error, write_errors, torn>>
  /\ UNCHANGED <<jobs, continue_on_error, shutdown_flag, jstate, taken, wpc, wjob, wq,
                 results, streams, num_failed_jobs, full, ret, writer_lock, writer,
                 processing_result, batch_status, final_flushes, began_after_error,
                 running_at_interrupt>>

\* run_check: fs::File::create(output) succeeds.
CreateReport ==
  /\ main_pc = "handler_set"
  /\ main_pc' = "process_jobs"
  /\ UNCHANGED <<first_error, write_errors, torn>>
  /\ UNCHANGED <<jobs, continue_on_error, shutdown_flag, jstate, taken, wpc, wjob, wq,
                 results, streams, num_failed_jobs, full, ret, writer_lock, writer,
                 processing_result, batch_status, final_flushes, exit, began_after_error,
                 running_at_interrupt>>

\* run_check: fs::File::create(output) fails, "Failed to create report file".
CreateFail ==
  /\ main_pc = "handler_set"
  /\ exit' = [code |-> ExitFailure, path |-> 0]
  /\ main_pc' = "done"
  /\ UNCHANGED <<first_error, write_errors, torn>>
  /\ UNCHANGED <<jobs, continue_on_error, shutdown_flag, jstate, taken, wpc, wjob, wq,
                 results, streams, num_failed_jobs, full, ret, writer_lock, writer,
                 processing_result, batch_status, final_flushes, began_after_error,
                 running_at_interrupt>>

\* run_check: mpb.clear()? fails after the final flush.
ClearFail ==
  /\ main_pc = "flushed"
  /\ exit' = [code |-> ExitFailure, path |-> 0]
  /\ main_pc' = "done"
  /\ UNCHANGED <<first_error, write_errors, torn>>
  /\ UNCHANGED <<jobs, continue_on_error, shutdown_flag, jstate, taken, wpc, wjob, wq,
                 results, streams, num_failed_jobs, full, ret, writer_lock, writer,
                 processing_result, batch_status, final_flushes, began_after_error,
                 running_at_interrupt>>

InitRunCheck == \E js \in SinkJobLists : InitWith(js, "run_check")

NextRunCheck ==
  \/ NextSink
  \/ SetHandler \/ SetHandlerFail
  \/ CreateReport \/ CreateFail
  \/ ClearFail

SpecRunCheck == InitRunCheck /\ [][NextRunCheck]_vars

\* ----------------------------------------- finalization with a holder left
\* check_file from the return of its closure, and the pair arm of
\* process_job from the return of process_paired_readers, run with the
\* hasher Arc as the code has it (extra = 0) and with one more clone of it
\* alive somewhere (extra = 1).
WithHolders(r, extra) == [r EXCEPT !.holders = @ + extra]

LogicOf(job) ==
  Closure(IF job.kind = "SingleFastq" THEN "fastq" ELSE IF job.kind = "Bam" THEN "bam" ELSE "raw",
          job.length_check)

check_file_held(path, setup, logic, extra) ==
  IF ~setup.ok THEN check_file_setup(path, logic, setup)
  ELSE check_file_outcome(path, [CallLogic(logic, setup.rd) EXCEPT !.rd = WithHolders(@, extra)])

process_paired_held(job, s1, s2, e1, e2) ==
  IF s1.ok /\ s2.ok
  THEN process_paired_checked(job,
         [process_paired_readers(s1.rd, s2.rd, job.length_check)
            EXCEPT !.rd1 = WithHolders(@, e1), !.rd2 = WithHolders(@, e2)])
  ELSE process_paired_setups(job, s1, s2)

InitFinalize ==
  \/ \E job \in SingleJobsAt(1) : InitWith(<<job>>, "finalize")
  \/ \E job \in PairedJobsAt(1) : InitWith(<<job>>, "finalize")
  \/ \E job \in BamJobsAt(1) : InitWith(<<job>>, "finalize")
  \/ \E job \in RawJobsAt(1) : InitWith(<<job>>, "finalize")

FinalizeFile ==
  /\ main_pc = "finalize" /\ jobs[1].kind # "PairedFastq"
  /\ \E extra \in {0, 1} :
       LET job == jobs[1]
           pj == process_file_job(job,
                   check_file_held(job.path,
                     setup_file_reader(job.path, job.file, job.kind = "SingleFastq"),
                     LogicOf(job), extra))
       IN  /\ results' = [results EXCEPT ![1] = pj.result]
           /\ streams' = [streams EXCEPT ![1] = pj.rds]
  /\ jstate' = [jstate EXCEPT ![1] = "Running"]
  /\ main_pc' = "checked"
  /\ UNCHANGED <<first_error, write_errors, torn>>
  /\ UNCHANGED <<jobs, continue_on_error, shutdown_flag, taken, wpc, wjob, wq,
                 num_failed_jobs, full, ret, writer_lock, writer, processing_result,
                 batch_status, final_flushes, exit, began_after_error,
                 running_at_interrupt>>

FinalizePair ==
  /\ main_pc = "finalize" /\ jobs[1].kind = "PairedFastq"
  /\ \E e1, e2 \in {0, 1} :
       LET job == jobs[1]
           pj == process_paired_held(job, setup_file_reader(job.path, job.file, TRUE),
                                     setup_file_reader(job.path2, job.file2, TRUE), e1, e2)
       IN  /\ results' = [results EXCEPT ![1] = pj.result]
           /\ streams' = [streams EXCEPT ![1] = pj.rds]
  /\ jstate' = [jstate EXCEPT ![1] = "Running"]
  /\ main_pc' = "checked"
  /\ UNCHANGED <<first_error, write_errors, torn>>
  /\ UNCHANGED <<jobs, continue_on_error, shutdown_flag, taken, wpc, wjob, wq,
                 num_failed_jobs, full, ret, writer_lock, writer, processing_result,
                 batch_status, final_flushes, exit, began_after_error,
                 running_at_interrupt>>

NextFinalize == FinalizeFile \/ FinalizePair \/ CheckWrite

SpecFinalize == InitFinalize /\ [][NextFinalize]_vars

\* --------------------------------------------------- the readers, read by read
\* The reader stacks of one job, opened by setup_file_reader and then read
\* one Read::read call at a time, with any buffer length up to BufCap and
\* with reads of the file that fail.
InitRead ==
  \/ \E job \in {j \in PairedJobsAt(1) : j.length_check = Skip} : InitWith(<<job>>, "read")
  \/ \E job \in BamJobsAt(1) : InitWith(<<job>>, "read")
  \/ \E job \in RawJobsAt(1) : InitWith(<<job>>, "read")

OpenFiles ==
  /\ main_pc = "read"
  /\ LET job == jobs[1]
         fq == job.kind \in {"SingleFastq", "PairedFastq"}
         s1 == setup_file_reader(job.path, job.file, fq)
     IN  streams' = [streams EXCEPT ![1] =
                       IF job.kind = "PairedFastq"
                       THEN <<s1.rd, setup_file_reader(job.path2, job.file2, TRUE).rd>>
                       ELSE <<s1.rd>>]
  /\ main_pc' = "reading"
  /\ UNCHANGED <<first_error, write_errors, torn>>
  /\ UNCHANGED <<jobs, continue_on_error, shutdown_flag, jstate, taken, wpc, wjob, wq,
                 results, num_failed_jobs, full, ret, writer_lock, writer,
                 processing_result, batch_status, final_flushes, exit,
                 began_after_error, running_at_interrupt>>

SetUp(m) ==
  /\ m \in 1..Len(streams[1])
  /\ setup_file_reader(PathOf(1, m), IF m = 1 THEN jobs[1].file ELSE jobs[1].file2,
                       jobs[1].kind \in {"SingleFastq", "PairedFastq"}).ok

ReadSome(m) ==
  /\ main_pc = "reading" /\ SetUp(m)
  /\ \E n \in 0..BufCap :
       streams' = [streams EXCEPT ![1][m] = DualProgressReader_read(@, n)]
  /\ UNCHANGED <<first_error, write_errors, torn>>
  /\ UNCHANGED <<jobs, continue_on_error, shutdown_flag, jstate, taken, wpc, wjob, wq,
                 results, num_failed_jobs, full, ret, writer_lock, writer, main_pc,
                 processing_result, batch_status, final_flushes, exit,
                 began_after_error, running_at_interrupt>>

ReadFails(m) ==
  /\ main_pc = "reading" /\ SetUp(m)
  /\ streams' = [streams EXCEPT ![1][m] = DualProgressReader_read_err(@)]
  /\ UNCHANGED <<first_error, write_errors, torn>>
  /\ UNCHANGED <<jobs, continue_on_error, shutdown_flag, jstate, taken, wpc, wjob, wq,
                 results, num_failed_jobs, full, ret, writer_lock, writer, main_pc,
                 processing_result, batch_status, final_flushes, exit,
                 began_after_error, running_at_interrupt>>

NextRead == OpenFiles \/ (\E m \in {1, 2} : ReadSome(m) \/ ReadFails(m))

SpecRead == InitRead /\ [][NextRead]_vars

\* ================================================================= claims
\* The report as a reader of the file would see it once everything buffered
\* is flushed, and what is known about the file behind a line.
Lines == writer.disk \o writer.buf
LineIds == 1..Len(Lines)
JobOfPath(path) == jobs[path \div 10]
FileOfPath(path) ==
  IF path % 10 = 1 THEN JobOfPath(path).file ELSE JobOfPath(path).file2
StreamOfPath(path) == streams[path \div 10][path % 10]

\* The decoded content a FASTQ file was built from: the inverse of Compress.
IsGz(file) == file.bytes # <<>> /\ file.bytes[Len(file.bytes)] = GzTrailer
ContentOf(file) ==
  IF IsGz(file) THEN [i \in 1..(Len(file.bytes) - 1) |-> file.bytes[i] - GzOffset]
  ELSE file.bytes
\* A FASTQ file that opens, decompresses and decodes without error.
Decodable(file) ==
  /\ file.open /\ file.bytes # <<>>
  /\ \A i \in 1..Len(ContentOf(file)) : ContentOf(file)[i] # BadByte
NumRecs(file) == Len(ContentOf(file))
\* A BAM file whose header and records all decode.
BamDecodable(file) ==
  /\ file.open /\ file.bytes # <<>> /\ file.bytes[1] # HdrBad
  /\ \A i \in 2..Len(file.bytes) : file.bytes[i] \in BamKinds

Succeeded(l) == l.status = "OK" /\ (l.check_type = "raw" \/ l.num_records # NoneV)

\* C1: every report line of a file whose validation succeeded (status OK,
\* with at least one record unless raw) carries the SHA-256 of the file's
\* complete on-disk bytes, each byte hashed once and in file order, with
\* or without decompression downstream of the hash.
C1_ChecksumOfWholeFile ==
  \A i \in LineIds :
    Succeeded(Lines[i]) =>
      /\ Lines[i].checksum = Some(Sha256(FileOfPath(Lines[i].path).bytes))
      /\ StreamOfPath(Lines[i].path).hashed = FileOfPath(Lines[i].path).bytes

C1_Witness ==
  \E i \in LineIds :
    /\ Succeeded(Lines[i])
    /\ Lines[i].check_type = "fastq"
    /\ IsGz(FileOfPath(Lines[i].path))
    /\ Len(FileOfPath(Lines[i].path).bytes) > BufCap
    /\ Lines[i].checksum = Some(Sha256(FileOfPath(Lines[i].path).bytes))

\* C2: a report line carries a checksum only if the file's byte stream was
\* read to end-of-file.
C2_ChecksumOnlyIfDrained ==
  \A i \in LineIds :
    Lines[i].checksum # NoneV => Drained(StreamOfPath(Lines[i].path))

\* C3: a FASTQ or BAM file whose decoder yields zero records gets a report
\* line with status ERROR and no stats, whatever the length policy.
ZeroRecords(l) ==
  LET file == FileOfPath(l.path)
  IN  \/ l.check_type = "fastq" /\ Decodable(file) /\ NumRecs(file) = 0
      \/ l.check_type = "bam" /\ BamDecodable(file) /\ Len(file.bytes) = 1

C3_ZeroRecordsIsError ==
  \A i \in LineIds :
    ZeroRecords(Lines[i]) => Lines[i].status = "ERROR" /\ Lines[i].num_records = NoneV

\* C8: in a paired job whose mates both decode and have different record
\* counts, exactly one pair-level error is recorded, naming the longer mate;
\* both lines end with that same error and have status ERROR; and in every
\* paired job the pair-level errors of the two lines are the same.
PairTexts ==
  {"Mismatched read counts: R1 has more records than R2.",
   "Mismatched read counts: R2 has more records than R1.",
   "Parsing error during paired fastq check."}
PairLevel(errors) == SelectSeq(errors, LAMBDA e : e.text \in PairTexts)
MismatchText(n1, n2) ==
  IF n1 > n2 THEN "Mismatched read counts: R1 has more records than R2."
  ELSE "Mismatched read counts: R2 has more records than R1."

C8_PairErrorOnBothLines ==
  \A i \in LineIds :
    (JobOfPath(Lines[i].path).kind = "PairedFastq" /\ Lines[i].path % 10 = 1
       /\ i < Len(Lines))
    => LET job == JobOfPath(Lines[i].path)
           l1 == Lines[i]
           l2 == Lines[i + 1]
       IN  /\ PairLevel(l1.errors) = PairLevel(l2.errors)
           /\ (Decodable(job.file) /\ Decodable(job.file2)
                 /\ NumRecs(job.file) # NumRecs(job.file2))
              => /\ Len(PairLevel(l1.errors)) = 1
                 /\ PairLevel(l1.errors)[1].text =
                      MismatchText(NumRecs(job.file), NumRecs(job.file2))
                 /\ l1.errors[Len(l1.errors)] = PairLevel(l1.errors)[1]
                 /\ l2.errors[Len(l2.errors)] = PairLevel(l1.errors)[1]
                 /\ l1.status = "ERROR" /\ l2.status = "ERROR"

C8_Witness ==
  /\ Len(Lines) = 2
  /\ jobs[1].kind = "PairedFastq"
  /\ Decodable(jobs[1].file) /\ Decodable(jobs[1].file2)
  /\ NumRecs(jobs[1].file) >= NumRecs(jobs[1].file2) + 2
  /\ NumRecs(jobs[1].file2) >= 1
  /\ Len(PairLevel(Lines[1].errors)) = 1
  /\ PairLevel(Lines[2].errors) = PairLevel(Lines[1].errors)
  /\ Lines[1].status = "ERROR" /\ Lines[2].status = "ERROR"

\* C9: a single-file job with at least one record succeeds under Fixed(n)
\* iff every record's length equals n, and under Skip record lengths never
\* cause an error.  (ReadLengthCheck has no Auto variant to draw.)
SingleLine(l) ==
  /\ JobOfPath(l.path).kind = "SingleFastq"
  /\ Decodable(FileOfPath(l.path)) /\ NumRecs(FileOfPath(l.path)) >= 1

C9_LengthPolicyDecidesSuccess ==
  \A i \in LineIds :
    SingleLine(Lines[i]) =>
      LET lc == JobOfPath(Lines[i].path).length_check
          content == ContentOf(FileOfPath(Lines[i].path))
      IN  /\ lc.kind = "Fixed" =>
               (Lines[i].status = "OK" <=> \A k \in 1..Len(content) : content[k] = lc.n)
          /\ lc.kind = "Skip" => Lines[i].status = "OK"

\* C10: in a single-file job under Fixed(n), the first record whose length
\* differs from n, at 1-based index k, yields exactly one error naming
\* record k and the expected length, and no record after k is scanned.
FirstViolation(content, n) ==
  CHOOSE k \in 1..Len(content) :
    content[k] # n /\ \A h \in 1..(k - 1) : content[h] = n

C10_FirstViolationStopsScan ==
  \A i \in LineIds :
    LET lc == JobOfPath(Lines[i].path).length_check
        content == ContentOf(FileOfPath(Lines[i].path))
    IN  (SingleLine(Lines[i]) /\ lc.kind = "Fixed"
           /\ \E k \in 1..Len(content) : content[k] # lc.n)
        => /\ Lines[i].num_records = Some(FirstViolation(content, lc.n))
           /\ Len(Lines[i].errors) = 1
           /\ Lines[i].errors[1].text = "Found inconsistent read length"
           /\ Lines[i].errors[1].n = FirstViolation(content, lc.n)
           /\ Lines[i].errors[1].m = lc.n

\* ------------------------------------------------------ scheduler claims
PathsOf(j) ==
  IF jobs[j].kind = "PairedFastq" THEN {jobs[j].path, jobs[j].path2} ELSE {jobs[j].path}
LinesOf(path) == {i \in LineIds : Lines[i].path = path}
OnDisk(path) == {i \in 1..Len(writer.disk) : writer.disk[i].path = path}
Returned == main_pc \in {"joined", "flushed", "done"}
Failed(j) == jstate[j] = "Completed" /\ CheckResult_is_error(results[j])

C5_Step ==
  ~continue_on_error =>
    /\ ErrorRecorded => taken' = taken
    /\ began_after_error' \subseteq taken
    /\ Cardinality(began_after_error') <= NumWorkers - 1
    /\ \A j \in JobIds :
         /\ jstate[j] = "Running" => jstate'[j] \in {"Running", "Completed"}
         /\ jstate'[j] = "Completed" =>
              \A path \in PathsOf(j) : Cardinality(OnDisk(path)') = 1

C6_Step ==
  /\ \A j \in JobIds :
       /\ (jstate[j] = "Pending" /\ jstate'[j] = "Running") => ~shutdown_flag
       /\ (jstate[j] = "Pending" /\ jstate'[j] = "Skipped") => shutdown_flag
       /\ jstate[j] = "Running" => jstate'[j] \in {"Running", "Completed"}
       /\ jstate[j] = "Skipped" => jstate'[j] = "Skipped"
       /\ jstate'[j] = "Skipped" =>
            /\ results'[j] = NoResult
            /\ \A path \in PathsOf(j) : LinesOf(path)' = {}
  /\ Returned' =>
       \A j \in running_at_interrupt' :
         /\ jstate'[j] = "Completed"
         /\ results'[j] = process_job(jobs[j]).result
         /\ \A path \in PathsOf(j) : Cardinality(LinesOf(path)') = 1
         /\ main_pc' \in {"flushed", "done"} =>
              \A path \in PathsOf(j) : Cardinality(OnDisk(path)') = 1

BatchSucceeded == \A j \in JobIds : jstate[j] = "Completed" /\ ~Failed(j)

AllOfLength(content, n) == \A k \in 1..Len(content) : content[k] = n

\* C11: in a paired job each mate is checked against its own length
\* policy: when R1's records all have length a under Fixed(a), R2's records
\* all have one length b different from a, and the record counts are equal,
\* both lines have status OK and report read_length a and b.
C11_EachMateOwnPolicy ==
  \A i \in LineIds :
    (JobOfPath(Lines[i].path).kind = "PairedFastq" /\ Lines[i].path % 10 = 1
       /\ i < Len(Lines))
    => LET job == JobOfPath(Lines[i].path)
           c1 == ContentOf(job.file)
           c2 == ContentOf(job.file2)
       IN  (/\ Decodable(job.file) /\ Decodable(job.file2)
            /\ Len(c1) >= 1 /\ Len(c1) = Len(c2)
            /\ job.length_check.kind = "Fixed"
            /\ AllOfLength(c1, job.length_check.n)
            /\ \E b \in LenSet \ {job.length_check.n} : AllOfLength(c2, b))
           => /\ Lines[i].status = "OK" /\ Lines[i + 1].status = "OK"
              /\ Lines[i].read_length = Some(c1[1])
              /\ Lines[i + 1].read_length = Some(c2[1])

\* C12: for a BAM file with at least one record and no decode error, the
\* secondary-alignment warning appears exactly once iff some record is
\* secondary, and the hard-clip warning exactly once iff some primary record
\* is hard-clipped; each carries the total count of such records and the
\* 1-based number and name of the first one, independently of the other.
SecondaryText == "File contains secondary alignment(s)."
HardClipText == "File contains primary alignment(s) with hard-clipped bases."
RecordsOfKind(file, kinds) == {k \in 1..(Len(file.bytes) - 1) : file.bytes[k + 1] \in kinds}
FirstOf(S) == CHOOSE k \in S : \A h \in S : k <= h

WarningCitesFirst(l, text, S) ==
  LET ws == SelectSeq(l.warnings, LAMBDA w : w.text = text)
  IN  /\ S = {} => ws = <<>>
      /\ S # {} => /\ Len(ws) = 1
                   /\ ws[1].n = Cardinality(S)
                   /\ ws[1].m = FirstOf(S)
                   /\ ws[1].id = RecNames[FirstOf(S)]

C12_AlignmentWarningsOnce ==
  \A i \in LineIds :
    LET file == FileOfPath(Lines[i].path)
    IN  (Lines[i].check_type = "bam" /\ BamDecodable(file) /\ Len(file.bytes) >= 2)
        => /\ WarningCitesFirst(Lines[i], SecondaryText,
                 RecordsOfKind(file, {BamSecondary, BamSecondaryHardClip}))
           /\ WarningCitesFirst(Lines[i], HardClipText,
                 RecordsOfKind(file, {BamHardClip}))

C12_Witness ==
  \E i \in LineIds :
    LET file == FileOfPath(Lines[i].path)
    IN  /\ Lines[i].check_type = "bam" /\ BamDecodable(file)
        /\ file.bytes = <<HdrEmpty, BamHardClip, BamSecondaryHardClip, BamSecondary>>
        /\ Len(Lines[i].warnings) = 2
        /\ Lines[i].warnings[1].n = 2 /\ Lines[i].warnings[1].m = 2
        /\ Lines[i].warnings[2].n = 1 /\ Lines[i].warnings[2].m = 1

Writing(w) == wpc[w] \in {"write", "flush", "unlock"}
IsR1OfPair(l) == JobOfPath(l.path).kind = "PairedFastq" /\ l.path % 10 = 1
IsR2OfPair(l) == JobOfPath(l.path).kind = "PairedFastq" /\ l.path % 10 = 2

ProcessRuns == main_pc \in {"process_jobs", "joined", "flushed"}

C15_Step ==
  /\ shutdown_flag => shutdown_flag'
  /\ (~shutdown_flag /\ shutdown_flag') =>
       /\ main_pc' = main_pc /\ exit' = exit
       /\ UNCHANGED <<jstate, taken, wpc, wjob, wq, results, num_failed_jobs, full,
                      ret, writer_lock, writer, processing_result, batch_status>>
  /\ (main_pc # "exited" /\ main_pc' = "exited") =>
       /\ shutdown_flag
       /\ exit' = [code |-> ExitInterrupted, path |-> 0]
       /\ UNCHANGED <<jstate, wpc, writer, processing_result>>
  /\ main_pc = "exited" => UNCHANGED vars

C15_SecondInterruptExits ==
  /\ [](ProcessRuns /\ shutdown_flag => ENABLED SecondInterrupt)
  /\ [][C15_Step]_vars

C15_Witness ==
  /\ main_pc = "exited" /\ shutdown_flag
  /\ exit.code = ExitInterrupted
  /\ \E j \in JobIds : jstate[j] = "Running"
  /\ \E j \in JobIds : jstate[j] = "Pending"

\* C16 as stated: under continue-on-error, once the parallel loop has
\* returned, the tally equals the number of completed jobs whose result is an
\* error, and the batch status reports failure with that count iff the tally
\* is greater than zero.
FailedStatus == "Processing complete. pairs/files failed."
CancelledStatus == "Operation cancelled by user."
PassedStatus == "All checks passed!"
NumFailed == Cardinality({j \in JobIds : Failed(j)})

C16_StatusFromTallyAlone ==
  (continue_on_error /\ Returned) =>
    /\ num_failed_jobs = NumFailed
    /\ (batch_status.msg = FailedStatus /\ batch_status.n = num_failed_jobs)
         <=> num_failed_jobs > 0

\* C16, amended: the tally equals the number of completed jobs whose result
\* is an error (a pair once, a skipped job never); the status decided when
\* the loop returns reports failure with that count iff the tally is greater
\* than zero and the cancellation flag is not set, reports the cancellation
\* iff the flag is set, and reports success otherwise.
C16_Step ==
  (continue_on_error /\ main_pc = "process_jobs" /\ main_pc' = "joined") =>
    /\ batch_status'.msg = FailedStatus <=> (num_failed_jobs > 0 /\ ~shutdown_flag)
    /\ batch_status'.msg = CancelledStatus <=> shutdown_flag
    /\ batch_status'.msg = PassedStatus <=> (num_failed_jobs = 0 /\ ~shutdown_flag)

C16_TallyCountsFailedJobs ==
  /\ [](continue_on_error /\ Returned =>
          /\ num_failed_jobs = NumFailed
          /\ batch_status.msg = FailedStatus =>
               batch_status.n = num_failed_jobs /\ num_failed_jobs > 0)
  /\ [][C16_Step]_vars

C16_Witness ==
  /\ continue_on_error /\ main_pc = "joined"
  /\ num_failed_jobs = 2
  /\ \E j \in JobIds : jobs[j].kind = "PairedFastq" /\ Failed(j)
  /\ \E j \in JobIds : jstate[j] = "Completed" /\ ~Failed(j)
  /\ batch_status = [msg |-> FailedStatus, n |-> 2]

\* C17: a report line carries stats iff at least one record of its file was
\* successfully parsed; in particular a file whose first k >= 1 records
\* decode and whose record k+1 does not still reports stats counting the k
\* records parsed before the failure.
FirstGood(content) == content # <<>> /\ content[1] # BadByte
GoodPrefix(content) ==
  CHOOSE k \in 0..Len(content) :
    /\ \A h \in 1..k : content[h] # BadByte
    /\ k < Len(content) => content[k + 1] = BadByte

ParsedAny(l) ==
  LET job == JobOfPath(l.path)
      file == FileOfPath(l.path)
  IN  IF job.kind = "Bam"
      THEN setup_file_reader(l.path, file, FALSE).ok /\ Len(file.bytes) >= 2
             /\ file.bytes[1] # HdrBad /\ file.bytes[2] \in BamKinds
      ELSE IF job.kind = "SingleFastq"
      THEN setup_file_reader(l.path, file, TRUE).ok /\ FirstGood(ContentOf(file))
      ELSE /\ setup_file_reader(job.path, job.file, TRUE).ok
           /\ setup_file_reader(job.path2, job.file2, TRUE).ok
           /\ FirstGood(ContentOf(file))
           /\ l.path % 10 = 2 =>
                (ContentOf(job.file) = <<>> \/ FirstGood(ContentOf(job.file)))

C17_StatsIffRecordParsed ==
  \A i \in LineIds :
    Lines[i].check_type \in {"fastq", "bam"} =>
      /\ Lines[i].num_records # NoneV <=> ParsedAny(Lines[i])
      /\ (JobOfPath(Lines[i].path).kind = "SingleFastq" /\ ParsedAny(Lines[i])
            /\ GoodPrefix(ContentOf(FileOfPath(Lines[i].path)))
                 < NumRecs(FileOfPath(Lines[i].path)))
         => Lines[i].num_records =
              Some(GoodPrefix(ContentOf(FileOfPath(Lines[i].path))))

\* C18: whenever a BAM file's header is read and carries reference
\* sequences, read groups, program records or comments, the file's report
\* line contains the privacy warning, whatever records follow the header,
\* none at all included.
HasHeaderWarning(l) == \E k \in 1..Len(l.warnings) : l.warnings[k] = HeaderWarning

C18_HeaderWarningAlways ==
  \A i \in LineIds :
    LET file == FileOfPath(Lines[i].path)
    IN  (Lines[i].check_type = "bam" /\ file.open /\ file.bytes # <<>>
           /\ file.bytes[1] = HdrInfo)
        => HasHeaderWarning(Lines[i])

\* C19: every report line has status OK iff its errors list is empty and
\* ERROR otherwise; a paired job's line lists the mate's file-level errors
\* followed by all pair-level errors, so a mate without a file-level error
\* is still ERROR when a pair-level error exists; and the pair counts as
\* valid iff neither mate has a file-level error and there is no pair-level
\* error.
C19_StatusFollowsErrors ==
  \A i \in LineIds :
    LET result == results[Lines[i].path \div 10]
        report == IF Lines[i].path % 10 = 1 THEN result.r1 ELSE result.r2
    IN  /\ Lines[i].status = (IF Lines[i].errors = <<>> THEN "OK" ELSE "ERROR")
        /\ result.kind # "PairedFastq" => Lines[i].errors = report.errors
        /\ result.kind = "PairedFastq" =>
             /\ Lines[i].errors = report.errors \o result.pair_errors
             /\ ~CheckResult_is_error(result) <=>
                  /\ result.r1.errors = <<>> /\ result.r2.errors = <<>>
                  /\ result.pair_errors = <<>>
             /\ (Len(Lines) = 2) =>
                  (~CheckResult_is_error(result) <=>
                     (Lines[1].status = "OK" /\ Lines[2].status = "OK"))

C19_Witness ==
  /\ Len(Lines) = 2
  /\ results[1].kind = "PairedFastq"
  /\ results[1].r1.errors = <<>> /\ results[1].r2.errors # <<>>
  /\ results[1].pair_errors # <<>>
  /\ Lines[1].status = "ERROR"
  /\ Lines[1].errors = results[1].pair_errors
  /\ Lines[2].errors = results[1].r2.errors \o results[1].pair_errors

\* C20 as stated: for a FASTQ file with at least one record checked under
\* Fixed(m), the mean-read-length error is on the file's report line iff the
\* sum of the file's sequence lengths is at most m times its number of
\* records; under Skip no length error is ever reported.
MeanText == "Mean read length is not greater than minimum required"
HasMeanError(l) == \E k \in 1..Len(l.errors) : l.errors[k].text = MeanText
RECURSIVE SumOf(_, _)
SumOf(content, n) == IF n = 0 THEN 0 ELSE content[n] + SumOf(content, n - 1)
FastqWithRecords(l) ==
  /\ l.check_type = "fastq"
  /\ Decodable(FileOfPath(l.path)) /\ NumRecs(FileOfPath(l.path)) >= 1

Scanned(l) ==
  LET job == JobOfPath(l.path)
      n == NumRecs(FileOfPath(l.path))
      other == IF l.path % 10 = 1 THEN job.file2 ELSE job.file
  IN  IF job.kind = "SingleFastq" THEN n
      ELSE IF ~setup_file_reader(0, other, TRUE).ok THEN 0
      ELSE IF GoodPrefix(ContentOf(other)) < Min(NumRecs(other), n + 1) THEN 0
      ELSE Min(n, NumRecs(other) + 1)

FailedJobs == {j \in JobIds : Failed(j)}

DecodeErrorAt(l) ==
  LET file == FileOfPath(l.path)
      kind == JobOfPath(l.path).kind
  IN  IF kind = "SingleFastq" /\ setup_file_reader(l.path, file, TRUE).ok
           /\ GoodPrefix(ContentOf(file)) < NumRecs(file)
      THEN GoodPrefix(ContentOf(file)) + 1
      ELSE IF kind = "Bam" /\ file.open /\ file.bytes # <<>> /\ file.bytes[1] # HdrBad
                /\ GoodPrefix(Tail(file.bytes)) < Len(file.bytes) - 1
      THEN GoodPrefix(Tail(file.bytes)) + 1
      ELSE 0
\* The offset of the last byte record i of the file behind l occupies.
ByteOfRecord(l, i) == IF l.check_type = "bam" THEN i + 1 ELSE i

C22_DecodeErrorStopsValidator ==
  \A i \in LineIds :
    DecodeErrorAt(Lines[i]) > 0 =>
      /\ Lines[i].status = "ERROR"
      /\ Len(Lines[i].errors) = 1
      /\ Lines[i].errors[1].text = "Failed to parse record"
      /\ Lines[i].errors[1].n = DecodeErrorAt(Lines[i])
      /\ Lines[i].checksum = NoneV
      /\ StreamOfPath(Lines[i].path).pos =
           Fill(NewReader(FileOfPath(Lines[i].path).bytes),
                ByteOfRecord(Lines[i], DecodeErrorAt(Lines[i]))).pos

C22_Witness ==
  \E i \in LineIds :
    /\ Lines[i].check_type = "fastq"
    /\ JobOfPath(Lines[i].path).kind = "SingleFastq"
    /\ FileOfPath(Lines[i].path) = File(<<4, BadByte, 4>>)
    /\ DecodeErrorAt(Lines[i]) = 2
    /\ Lines[i].errors[1].n = 2
    /\ StreamOfPath(Lines[i].path).pos = 2
    /\ Lines[i].checksum = NoneV

\* C23: a file whose reader cannot be set up (it does not open, or its
\* decompressing reader finds nothing to sniff) still gets its line: status
\* ERROR, the one set-up error, no stats, no checksum.  In a pair the mate
\* whose own reader was set up is not read beyond that set-up, and its line
\* too has status ERROR, no stats and no checksum; the pair-level error
\* list is empty, so each line carries its own report's errors only.
SetupOf(path) ==
  setup_file_reader(path, FileOfPath(path), JobOfPath(path).kind \in {"SingleFastq", "PairedFastq"})
MatePath(path) == IF path % 10 = 1 THEN path + 1 ELSE path - 1
NoStats(l) ==
  /\ l.check_type # "raw" => l.num_records = NoneV
  /\ l.check_type = "fastq" => l.read_length = NoneV
MateOfFailedSetup(l) ==
  /\ JobOfPath(l.path).kind = "PairedFastq"
  /\ SetupOf(l.path).ok /\ ~SetupOf(MatePath(l.path)).ok

C23_SetupFailureStillReported ==
  main_pc = "written" =>
    /\ Len(Lines) = (IF jobs[1].kind = "PairedFastq" THEN 2 ELSE 1)
    /\ \A i \in LineIds :
         /\ ~SetupOf(Lines[i].path).ok =>
              /\ Lines[i].status = "ERROR"
              /\ Lines[i].errors = <<SetupOf(Lines[i].path).err>>
              /\ NoStats(Lines[i]) /\ Lines[i].checksum = NoneV
              /\ Lines[i].warnings = <<>>
         /\ MateOfFailedSetup(Lines[i]) =>
              /\ Lines[i].status = "ERROR"
              /\ Len(Lines[i].errors) = 1
              /\ Lines[i].errors[1].text = "failed to parse; check aborted."
              /\ NoStats(Lines[i]) /\ Lines[i].checksum = NoneV
              /\ StreamOfPath(Lines[i].path).pos = SetupOf(Lines[i].path).rd.pos
         /\ (MateOfFailedSetup(Lines[i]) \/ ~SetupOf(Lines[i].path).ok) =>
              results[1].pair_errors = <<>>

C23_Witness ==
  /\ main_pc = "written" /\ jobs[1].kind = "PairedFastq"
  /\ ~jobs[1].file.open /\ Decodable(jobs[1].file2) /\ NumRecs(jobs[1].file2) = MaxRecs
  /\ Len(Lines) = 2
  /\ Lines[1].status = "ERROR" /\ Lines[1].errors[1].text = "Failed to open file for reading"
  /\ Lines[2].status = "ERROR" /\ Lines[2].num_records = NoneV
  /\ Lines[2].checksum = NoneV
  /\ results[1].pair_errors = <<>>

\* C24: warnings never influence status or error classification.  A BAM
\* file with at least one record and no decode error has status OK whatever
\* header, secondary-alignment and hard-clip warnings it carries; every line
\* that carries a warning has status OK; and the job counts as an error
\* exactly when one of its reports, or the pair, has an error.
AnyErrors(r) ==
  \/ r.r1.errors # <<>>
  \/ r.kind = "PairedFastq" /\ (r.r2.errors # <<>> \/ r.pair_errors # <<>>)

C24_WarningsDoNotFail ==
  main_pc = "written" =>
    /\ CheckResult_is_error(results[1]) <=> AnyErrors(results[1])
    /\ \A i \in LineIds :
         /\ Lines[i].warnings # <<>> => Lines[i].status = "OK"
         /\ (Lines[i].check_type = "bam" /\ BamDecodable(FileOfPath(Lines[i].path))
               /\ Len(FileOfPath(Lines[i].path).bytes) >= 2)
            => Lines[i].status = "OK"

C24_Witness ==
  /\ main_pc = "written"
  /\ ~CheckResult_is_error(results[1])
  /\ \E i \in LineIds :
       /\ Lines[i].check_type = "bam"
       /\ Len(Lines[i].warnings) = 3
       /\ HasHeaderWarning(Lines[i])
       /\ Lines[i].warnings[2].text = SecondaryText
       /\ Lines[i].warnings[3].text = HardClipText
       /\ Lines[i].status = "OK"

\* ------------------------------------------------------- the report sink
\* C25: under both policies, and whether the job passed or failed, every
\* line of a job's entry has been handed to the report writer, by the worker
\* holding the writer's lock, before the job becomes Completed and, under
\* fail-fast, before its Ok or Err is returned to the parallel iterator.
Written(j) ==
  LET e == write_jsonl_report_entry(results[j])
  IN  \A k \in 1..Len(e) : \E i \in LineIds : Lines[i] = e[k]

C25_Step ==
  /\ \A j \in JobIds :
       /\ (jstate[j] # "Completed" /\ jstate'[j] = "Completed") =>
            /\ jstate[j] = "Running" /\ Written(j)
            /\ \E w \in Workers : wjob[w] = j /\ wq[w] = <<>>
       /\ (ret'[j] # ret[j] /\ ret'[j] \in {"Ok", "Error"}) => Written(j)
  /\ Lines' # Lines =>
       \E w \in Workers :
         /\ writer_lock = w /\ wpc[w] = "write" /\ jstate[wjob[w]] = "Running"
         /\ Lines' = Append(Lines, Head(wq[w]))

C25_WrittenBeforeFinished ==
  /\ [](\A j \in JobIds : jstate[j] = "Completed" => Written(j))
  /\ [][C25_Step]_vars

C25_Witness ==
  /\ main_pc = "process_jobs" /\ ~continue_on_error
  /\ \E j \in JobIds :
       /\ jstate[j] = "Completed" /\ ret[j] = "Error"
       /\ CheckResult_is_error(results[j]) /\ Written(j)
  /\ \E j \in JobIds : jstate[j] = "Running"

\* C26: a failure to write a job's entry changes nothing but stderr and the
\* report itself: the step leaves the tally, the stop indicator, the
\* returned values, the job states, the flag and the position of run_check
\* as they were; the tally stays the number of jobs that ran to an error;
\* under fail-fast a job returns Err exactly when its own result is an
\* error; and with no interrupt and no failed job every job still runs and
\* process_jobs returns Ok.
RanToError == {j \in JobIds : results[j] # NoResult /\ CheckResult_is_error(results[j])}

C26_Step ==
  write_errors' # write_errors =>
    UNCHANGED <<num_failed_jobs, full, ret, jstate, taken, shutdown_flag, main_pc, exit,
                processing_result, results>>

C26_Invariant ==
  /\ num_failed_jobs = (IF continue_on_error THEN Cardinality(RanToError) ELSE 0)
  /\ \A j \in JobIds :
       /\ ret[j] = "Error" => j \in RanToError
       /\ ret[j] = "Ok" => j \notin RanToError
  /\ (main_pc \in {"joined", "flushed", "done"} /\ ~shutdown_flag
        /\ (continue_on_error \/ RanToError = {}))
     => /\ \A j \in JobIds : jstate[j] = "Completed"
        /\ processing_result.ok

C26_WriteFailureIsLoggedOnly == []C26_Invariant /\ [][C26_Step]_vars

C26_Witness ==
  /\ main_pc = "done" /\ ~continue_on_error /\ ~shutdown_flag
  /\ write_errors = JobIds
  /\ RanToError = {}
  /\ \A j \in JobIds : jstate[j] = "Completed" /\ ret[j] = "Ok"
  /\ processing_result.ok /\ exit.code = 0

\* C27 as stated: the final flush of run_check happens once, and from it
\* on every job is Completed or Skipped.
C27_AllTerminalAtFinalFlush ==
  /\ final_flushes <= 1
  /\ main_pc \in {"flushed", "done"} => final_flushes = 1
  /\ final_flushes = 1 => \A j \in JobIds : jstate[j] \in {"Completed", "Skipped"}

\* C27, amended: the final flush of run_check happens once, with every
\* worker stopped and the writer's lock free; from it on no job is Running
\* and nothing is left in the buffer, and every job is Completed or Skipped
\* or, under fail-fast after a job returned an Err, was never handed to a
\* worker and is still Pending.
Abandoned(j) ==
  /\ jstate[j] = "Pending" /\ j \notin taken
  /\ ~continue_on_error /\ ReturnedErrs # {}

C27_NoneRunningAtFinalFlush ==
  /\ final_flushes <= 1
  /\ main_pc \in {"flushed", "done"} => final_flushes = 1 /\ writer.buf = <<>>
  /\ final_flushes = 1 =>
       /\ \A w \in Workers : wpc[w] = "stopped"
       /\ writer_lock = 0
       /\ \A j \in JobIds : jstate[j] \in {"Completed", "Skipped"} \/ Abandoned(j)

C27_Witness ==
  /\ main_pc = "flushed" /\ final_flushes = 1 /\ ~continue_on_error
  /\ \E j \in JobIds : jstate[j] = "Completed" /\ ret[j] = "Error"
  /\ \E j \in JobIds : Abandoned(j)
  /\ \A j \in JobIds : jstate[j] # "Running"

\* ------------------------------------------------------------ termination
\* C28: under fair scheduling of the workers and the main thread, with
\* either policy and with or without an interrupt, run_check reaches its
\* final outcome (or the process is ended by a second interrupt); until
\* then every job that started running becomes Completed and every worker
\* waiting for the writer's lock gets it.
ProcessEnded == main_pc \in {"done", "exited"}

C28_BatchReturns ==
  /\ <>ProcessEnded
  /\ \A j \in 1..(NumJobs - 1) :
       (jstate[j] = "Running") ~> (jstate[j] = "Completed" \/ main_pc = "exited")
  /\ \A w \in Workers :
       (wpc[w] = "lock") ~> (writer_lock = w \/ main_pc = "exited")
  /\ [](main_pc = "done" => exit # NoExit)

C28_Witness ==
  /\ main_pc = "done" /\ shutdown_flag
  /\ running_at_interrupt # {}
  /\ \A j \in running_at_interrupt : jstate[j] = "Completed"
  /\ exit.code = ExitInterrupted

\* C29: when a second interrupt ends the process, the report file on disk
\* holds whole records only: no record is there in part, and every record
\* of a job whose write returned Ok is there.
WriteCompleted(j) == jstate[j] = "Completed" /\ j \notin write_errors
EntryOnDisk(j) ==
  LET e == write_jsonl_report_entry(results[j])
  IN  \A k \in 1..Len(e) : \E i \in 1..Len(writer.disk) : writer.disk[i] = e[k]

C29_OnlyWholeRecordsAtExit ==
  main_pc = "exited" =>
    /\ ~torn
    /\ \A i \in 1..Len(writer.disk) : writer.disk[i].check_type # "partial"
    /\ \A j \in JobIds : WriteCompleted(j) => EntryOnDisk(j)

\* ------------------------------------------------------------ determinism
\* C30: a job's result is what process_job makes of that job alone, however
\* the workers interleave; so under continue-on-error with no interrupt the
\* finished report holds, for every job list, the same records the same
\* number of times, whatever their order.
EntryOf(j) == write_jsonl_report_entry(process_job(jobs[j]).result)

RECURSIVE ExpectedLines(_)
ExpectedLines(n) == IF n = 0 THEN <<>> ELSE ExpectedLines(n - 1) \o EntryOf(n)

Occurrences(s, x) == Cardinality({i \in 1..Len(s) : s[i] = x})
SameMultiset(s, t) ==
  /\ Len(s) = Len(t)
  /\ \A i \in 1..Len(s) : Occurrences(s, s[i]) = Occurrences(t, s[i])

Busy(w) == wpc[w] \notin {"idle", "stopped"}

C31_Invariant ==
  /\ \A w, v \in Workers : (w # v /\ Busy(w) /\ Busy(v)) => wjob[w] # wjob[v]
  /\ \A w \in Workers : Busy(w) => wjob[w] \in taken
  /\ \A j \in JobIds :
       /\ jstate[j] # "Pending" => j \in taken
       /\ \A path \in PathsOf(j) : Cardinality(LinesOf(path)) <= 1
  /\ (Returned /\ continue_on_error /\ ~shutdown_flag) =>
       \A j \in JobIds :
         /\ jstate[j] = "Completed"
         /\ \A path \in PathsOf(j) : Cardinality(LinesOf(path)) = 1

C31_Step ==
  \A j \in JobIds :
    jstate'[j] # jstate[j] =>
      /\ <<jstate[j], jstate'[j]>> \in
           {<<"Pending", "Running">>, <<"Pending", "Skipped">>, <<"Running", "Completed">>}
      /\ \E w \in Workers : Busy(w) /\ wjob[w] = j

C31_EachJobRunAtMostOnce == []C31_Invariant /\ [][C31_Step]_vars

C31_Witness ==
  /\ main_pc = "done" /\ continue_on_error /\ ~shutdown_flag
  /\ \A j \in JobIds :
       /\ jstate[j] = "Completed"
       /\ \A path \in PathsOf(j) : Cardinality(LinesOf(path)) = 1
  /\ \E j \in JobIds : jobs[j].kind = "PairedFastq"
  /\ \E w, v \in Workers : w # v /\ wjob[w] # 0 /\ wjob[v] # 0

\* ------------------------------------------------------ paired validator
\* A pair whose two files are set up and decode throughout, one holding
\* more records than the other.
LineOfPath(path) == Lines[CHOOSE i \in LineIds : Lines[i].path = path]
CountOf(n) == IF n = 0 THEN NoneV ELSE Some(n)

UnequalPair ==
  /\ main_pc = "written" /\ jobs[1].kind = "PairedFastq"
  /\ Decodable(jobs[1].file) /\ Decodable(jobs[1].file2)
  /\ NumRecs(jobs[1].file) # NumRecs(jobs[1].file2)
LongerPath ==
  IF NumRecs(jobs[1].file) > NumRecs(jobs[1].file2) THEN jobs[1].path ELSE jobs[1].path2
ShorterPath == MatePath(LongerPath)

\* C32 as stated: the line of the longer mate of such a pair reports the
\* full number of records in its file.
C32_LongerMateFullyCounted ==
  UnequalPair =>
    LineOfPath(LongerPath).num_records = Some(NumRecs(FileOfPath(LongerPath)))

\* C32, amended: the validator processes one record of the longer mate
\* beyond the shorter mate's end, records the pair-level error and stops;
\* the longer mate's num_records is the shorter mate's record count plus
\* one, and the longer file is read no further than that record needs.
C32_LongerMateCountedOnePast ==
  UnequalPair =>
    /\ LineOfPath(LongerPath).num_records = Some(NumRecs(FileOfPath(ShorterPath)) + 1)
    /\ LineOfPath(ShorterPath).num_records = CountOf(NumRecs(FileOfPath(ShorterPath)))
    /\ Len(results[1].pair_errors) = 1
    /\ StreamOfPath(LongerPath).pos =
         Fill(NewReader(FileOfPath(LongerPath).bytes),
              NumRecs(FileOfPath(ShorterPath)) + 1).pos

C32_Witness ==
  /\ UnequalPair
  /\ NumRecs(jobs[1].file) = MaxRecs /\ NumRecs(jobs[1].file2) = 1
  /\ ~IsGz(jobs[1].file)
  /\ LineOfPath(jobs[1].path).num_records = Some(2)
  /\ LineOfPath(jobs[1].path2).num_records = Some(1)

\* C33: the paired validator walks the two mates in lockstep and stops at
\* the end of the first step in which a record of either mate is missing or
\* fails to decode.  StopStep is that step, computed from the files alone.
\* Each mate has been asked for exactly the records up to that step (R2's
\* record of the step is asked for even when R1's fails), and when no
\* record failed the two counts differ by at most the one surplus record,
\* and differ iff the pair-level error is recorded.
BothSetUp ==
  /\ main_pc = "written" /\ jobs[1].kind = "PairedFastq"
  /\ SetupOf(jobs[1].path).ok /\ SetupOf(jobs[1].path2).ok
StopsAt(content, k) == k > Len(content) \/ content[k] = BadByte
StopStep ==
  LET c1 == ContentOf(jobs[1].file)
      c2 == ContentOf(jobs[1].file2)
      stops(k) == StopsAt(c1, k) \/ StopsAt(c2, k)
  IN  CHOOSE k \in 1..(MaxRecs + 1) : stops(k) /\ \A h \in 1..(k - 1) : ~stops(h)
BadAtStop(path) ==
  LET c == ContentOf(FileOfPath(path))
  IN  StopStep <= Len(c) /\ c[StopStep] = BadByte
\* The reader of a file that has been asked for records 1..k.
AskedFor(path, k) ==
  LET rd == SetupOf(path).rd
  IN  IF k <= NumRecs(FileOfPath(path)) THEN Fill(rd, k) ELSE Fill(rd, Len(rd.bytes) + 1)

C33_PairedLockstep ==
  BothSetUp =>
    /\ StreamOfPath(jobs[1].path).pos = AskedFor(jobs[1].path, StopStep).pos
    /\ StreamOfPath(jobs[1].path2).pos = AskedFor(jobs[1].path2, StopStep).pos
    /\ (BadAtStop(jobs[1].path) \/ BadAtStop(jobs[1].path2)) =>
         /\ LineOfPath(jobs[1].path).num_records = NoneV
         /\ LineOfPath(jobs[1].path2).num_records = NoneV
    /\ ~(BadAtStop(jobs[1].path) \/ BadAtStop(jobs[1].path2)) =>
         LET n1 == Min(NumRecs(jobs[1].file), StopStep)
             n2 == Min(NumRecs(jobs[1].file2), StopStep)
         IN  /\ LineOfPath(jobs[1].path).num_records = CountOf(n1)
             /\ LineOfPath(jobs[1].path2).num_records = CountOf(n2)
             /\ n1 - n2 \in {-1, 0, 1}
             /\ (n1 # n2) <=> (results[1].pair_errors # <<>>)

C33_Witness ==
  /\ BothSetUp
  /\ NumRecs(jobs[1].file) = 1 /\ NumRecs(jobs[1].file2) = MaxRecs
  /\ Decodable(jobs[1].file) /\ Decodable(jobs[1].file2)
  /\ StopStep = 2
  /\ LineOfPath(jobs[1].path2).num_records = Some(2)
  /\ results[1].pair_errors # <<>>

\* ------------------------------------------------ aligned-container scan
\* The counters of check_bam after the first k records of a file.
RECURSIVE ScanAfter(_, _)
ScanAfter(file, k) ==
  IF k = 0 THEN BamScanInit
  ELSE BamCount(ScanAfter(file, k - 1),
                Unwrap(BamItem(Fill(NewReader(file.bytes), Len(file.bytes) + 1), k).item))

KindIn(file, kinds, k) == {h \in 1..k : file.bytes[h + 1] \in kinds}
DetailOk(detail, count, S) ==
  /\ count = Cardinality(S)
  /\ (detail # NoneV) <=> (count > 0)
  /\ detail # NoneV => Unwrap(detail) = <<FirstOf(S), RecNames[FirstOf(S)]>>

ScanOk(file, k) ==
  LET s == ScanAfter(file, k)
  IN  /\ s.num_records = k
      /\ s.secondary_alignment_count + s.hard_clip_count <= s.num_records
      /\ DetailOk(s.first_secondary_warning_details, s.secondary_alignment_count,
                  KindIn(file, {BamSecondary, BamSecondaryHardClip}, k))
      /\ DetailOk(s.first_hard_clip_warning_details, s.hard_clip_count,
                  KindIn(file, {BamHardClip}, k))
KeepsDetails(file, k) ==
  LET s == ScanAfter(file, k - 1)
      t == ScanAfter(file, k)
  IN  /\ s.first_secondary_warning_details # NoneV =>
           t.first_secondary_warning_details = s.first_secondary_warning_details
      /\ s.first_hard_clip_warning_details # NoneV =>
           t.first_hard_clip_warning_details = s.first_hard_clip_warning_details

\* C34: after every record of the scan, a record flagged secondary has
\* been counted as secondary only, hard clip or not; secondary count plus
\* hard-clip count is at most the records counted; each first-occurrence
\* detail is set iff its count is positive, names the earliest record of
\* its kind and does not change once set; and the scan of the whole file
\* ends with the counters the report's line is written from.
C34_ScanCounters ==
  (main_pc = "written" /\ jobs[1].kind = "Bam" /\ jobs[1].file.open
     /\ jobs[1].file.bytes # <<>> /\ jobs[1].file.bytes[1] # HdrBad) =>
    LET file == jobs[1].file
        n == GoodPrefix(Tail(file.bytes))
    IN  /\ \A k \in 0..n : ScanOk(file, k)
        /\ \A k \in 1..n : KeepsDetails(file, k)
        /\ (n = Len(file.bytes) - 1 /\ n > 0) =>
             /\ Lines[1].num_records = Some(ScanAfter(file, n).num_records)
             /\ WarningCitesFirst(Lines[1], SecondaryText,
                                  KindIn(file, {BamSecondary, BamSecondaryHardClip}, n))
             /\ WarningCitesFirst(Lines[1], HardClipText, KindIn(file, {BamHardClip}, n))

C34_Witness ==
  /\ main_pc = "written" /\ jobs[1].kind = "Bam"
  /\ jobs[1].file = File(<<HdrEmpty, BamSecondaryHardClip, BamHardClip, BamSecondary>>)
  /\ ScanAfter(jobs[1].file, 3).secondary_alignment_count = 2
  /\ ScanAfter(jobs[1].file, 3).hard_clip_count = 1
  /\ ScanAfter(jobs[1].file, 3).first_hard_clip_warning_details = Some(<<2, RecNames[2]>>)
  /\ Len(Lines[1].warnings) = 2
  /\ Lines[1].warnings[1].n = 2 /\ Lines[1].warnings[2].n = 1

\* ------------------------------------------------------------------- C35
\* The validator of the file behind a path returned Ok, so that its
\* checksum was asked for.
Attempted(path) ==
  LET job == JobOfPath(path)
  IN  IF job.kind = "PairedFastq"
      THEN /\ SetupOf(job.path).ok /\ SetupOf(job.path2).ok
           /\ process_paired_readers(SetupOf(job.path).rd, SetupOf(job.path2).rd,
                                     job.length_check).ok
      ELSE SetupOf(path).ok /\ CallLogic(LogicOf(job), SetupOf(path).rd).ok
\* The checksum of the file was asked for while the hasher had another holder.
AnotherHolder(path) == Attempted(path) /\ StreamOfPath(path).holders > 1
FinalizeErrorIn(l) ==
  \E e \in 1..Len(l.errors) :
    l.errors[e].text = "Failed to finalize checksum: hasher is still in use."

C40_SoleHolderAtFinalize ==
  main_pc = "written" =>
    \A i \in LineIds :
      /\ ~FinalizeErrorIn(Lines[i])
      /\ Cardinality(LinesOf(Lines[i].path)) = 1
      /\ Attempted(Lines[i].path) =>
           /\ StreamOfPath(Lines[i].path).holders = 1
           /\ Lines[i].checksum = Some(Sha256(StreamOfPath(Lines[i].path).hashed))
C40_Witness ==
  /\ main_pc = "written" /\ jobs[1].kind = "PairedFastq"
  /\ \A i \in LineIds : Attempted(Lines[i].path) /\ Lines[i].checksum # NoneV
  /\ Len(Lines) = 2

\* ------------------------------------------------------------------- C36
\* The batch-wide progress count: the sum of what the job's readers added.
main_pb == IF Len(streams[1]) = 2 THEN streams[1][1].global_pb + streams[1][2].global_pb
           ELSE streams[1][1].global_pb
Counted(r) ==
  /\ r.file_pb = Len(r.hashed) /\ r.global_pb = r.file_pb
  /\ r.hashed = SubSeq(r.bytes, 1, r.pos)
C36_Invariant ==
  main_pc = "reading" => \A m \in 1..Len(streams[1]) : Counted(streams[1][m])
\* What one step does to reader m: n bytes of the file were handed to the
\* hasher, n >= 0; both counts grew by n; they moved only if the read
\* returned Ok(n) with n > 0.
ReadStep(m) ==
  LET r == streams[1][m]
      n == Len(streams'[1][m].hashed) - Len(r.hashed)
  IN  /\ n >= 0
      /\ streams'[1][m].file_pb = r.file_pb + n
      /\ streams'[1][m].global_pb = r.global_pb + n
      /\ streams'[1][m].last <= 0 => n = 0
      /\ n > 0 => streams'[1][m].last = n
C36_Step ==
  main_pc = "reading" /\ main_pc' = "reading" =>
    /\ \A m \in 1..Len(streams[1]) : ReadStep(m)
    /\ main_pb' >= main_pb
    /\ \E m \in 1..Len(streams[1]) :
         main_pb' - main_pb = streams'[1][m].file_pb - streams[1][m].file_pb

\* C36: the per-file and the batch-wide count never decrease; a read that
\* returns Ok(n) with n > 0 adds n to both, a failed read or a read of no
\* bytes leaves both alone; after every read the per-file count is the
\* number of on-disk bytes fed to the file's hasher.
C36_ProgressCountsBytesRead == []C36_Invariant /\ [][C36_Step]_vars
\* Both mates of a pair read to the end, one of them gzip-compressed, the
\* last read of one failed and the last read of the other returned no bytes.
C36_Witness ==
  /\ main_pc = "reading" /\ Len(streams[1]) = 2
  /\ streams[1][1].gz /\ ~streams[1][2].gz
  /\ streams[1][1].last = -1 /\ streams[1][2].last = 0
  /\ \A m \in {1, 2} : streams[1][m].file_pb = Len(streams[1][m].bytes)
  /\ main_pb > BufCap

\* ------------------------------------------------------------------- C37
\* The error process_paired_readers returns when the record of the step at
\* which the loop stops fails to decode: R1's if R1's record is bad, else R2's.
DecodeFailureOfPair ==
  Msg("Failed to parse record",
      <<IF BadAtStop(jobs[1].path) THEN "R1" ELSE "R2">>, StopStep, 0)
PairDecodeFails ==
  BothSetUp /\ (BadAtStop(jobs[1].path) \/ BadAtStop(jobs[1].path2))

\* C37: when a record of either mate of a pair fails to decode, both files
\* are read no further than that record and both lines have status ERROR,
\* no stats, no checksum and the errors <decode error naming the mate and
\* the record index, "Parsing error during paired fastq check.">; the error
\* names R1 when the records of both mates at that step are bad.
C37_PairDecodeFailure ==
  PairDecodeFails =>
    /\ Len(Lines) = 2
    /\ \A i \in LineIds :
         /\ Lines[i].status = "ERROR"
         /\ NoStats(Lines[i])
         /\ Lines[i].checksum = NoneV
         /\ Lines[i].errors =
              <<DecodeFailureOfPair,
                Msg("Parsing error during paired fastq check.", <<>>, 0, 0)>>
         /\ StreamOfPath(Lines[i].path).pos = AskedFor(Lines[i].path, StopStep).pos
C37_Witness ==
  /\ PairDecodeFails /\ StopStep = 2
  /\ BadAtStop(jobs[1].path) /\ BadAtStop(jobs[1].path2)
  /\ NumRecs(jobs[1].file) = 3

\* ------------------------------------------------------------------- C38
\* run_check ends here, by returning or by its own exit(130).
RunCheckEnds == exit = NoExit /\ main_pc' = "done"
C38_Invariant ==
  continue_on_error /\ main_pc \in {"joined", "flushed"} => processing_result.ok
\* Under continue-on-error run_check that got as far as the match ends with
\* code 130 if the flag is set and with code 0 otherwise.
C38_AtMatch ==
  RunCheckEnds /\ main_pc = "flushed" /\ exit'.code # ExitFailure =>
    exit'.code = IF shutdown_flag THEN ExitInterrupted ELSE 0

\* C38 as stated: under continue-on-error process_jobs returns Ok, and
\* run_check ends with anything but success only at the final look at the
\* flag (exit 130) or because the report file could not be created or
\* flushed.
C38_Stated_Step ==
  continue_on_error /\ RunCheckEnds =>
    /\ C38_AtMatch
    /\ exit'.code = ExitFailure => main_pc \in {"handler_set", "joined"}
C38_OnlyFlagOrReportFile == []C38_Invariant /\ [][C38_Stated_Step]_vars

\* C38, amended: ... or because the interrupt handler could not be
\* installed, the report file could not be created or flushed, or the
\* progress display could not be cleared.
C38_Step ==
  continue_on_error /\ RunCheckEnds =>
    /\ C38_AtMatch
    /\ exit'.code = ExitFailure =>
         main_pc \in {"run_check", "handler_set", "joined", "flushed"}
    /\ main_pc = "flushed" /\ ~shutdown_flag => exit'.code \in {0, ExitFailure}
C38_SuccessDespiteFailedJobs == []C38_Invariant /\ [][C38_Step]_vars
\* Every job of the batch failed and run_check returned success.
C38_Witness ==
  /\ main_pc = "done" /\ continue_on_error /\ exit.code = 0
  /\ num_failed_jobs = Len(jobs) /\ processing_result.ok

\* ------------------------------------------------------------------- C39
\* run_check has returned the error "A validation error occurred in ...".
EndedWithValidationError ==
  main_pc = "done" /\ exit.code = ExitFailure /\ exit.path # 0
HandsBack(j) == ret'[j] # ret[j] /\ ret'[j] \in {"Ok", "Error"}

\* C39 as stated: under fail-fast a job's record is in the report file, and
\* the lock released, when its result is handed back; when run_check ends
\* with a validation error the file holds the record(s) of every job that
\* completed.
C39_Stated_Step ==
  \A j \in JobIds :
    ~continue_on_error /\ HandsBack(j) =>
      /\ EntryOnDisk(j)
      /\ \E w \in Workers : wjob[w] = j /\ wpc[w] = "return" /\ writer_lock # w
C39_UnlockStep ==
  \A w \in Workers :
    ~continue_on_error /\ wpc[w] = "unlock" /\ wpc'[w] = "return" =>
      /\ writer_lock = w /\ writer_lock' = 0
      /\ (wjob[w] \notin write_errors /\ writer.buf = <<>>) => EntryOnDisk(wjob[w])
C39_ReturnStep ==
  \A j \in JobIds :
    ~continue_on_error /\ HandsBack(j) =>
      /\ \E w \in Workers : wjob[w] = j /\ wpc[w] = "return" /\ writer_lock # w
      /\ j \notin write_errors => Written(j)
\* What is in the file stays there.
C39_FileGrows ==
  /\ Len(writer'.disk) >= Len(writer.disk)
  /\ SubSeq(writer'.disk, 1, Len(writer.disk)) = writer.disk

====
